---- MODULE Spec2Model ----
(***************************************************************************)
(* A model of bloaty's attribution engine: RangeMap (src/bloaty.cc,        *)
(* src/bloaty.h), the N-way join RangeMap::ComputeRollup, RangeSink,       *)
(* Bloaty::ScanAndRollupFile, Rollup and the collapser                     *)
(* (Rollup::CreateRows / Rollup::ComputeRows).                             *)
(*                                                                         *)
(* Addresses are unsigned words.  The model keeps the code's arithmetic    *)
(* (wrap-around of +, the UINT64_MAX sentinels) and scales the word down:  *)
(* UINT64_MAX is the largest word and every unsigned sum or difference is  *)
(* taken modulo UINT64_MAX + 1.                                            *)
(***************************************************************************)
EXTENDS Integers, Sequences, FiniteSets, TLC

\* The largest unsigned word (the scaled-down UINT64_MAX / UINTPTR_MAX).
UINT64_MAX == 63

\* The largest signed word of the Rollup totals (the scaled-down INT64_MAX).
INT64_MAX == 31

\* How many add / add_dual calls the RangeMap specification makes.
MaxMapOps == 2

\* How many add_with_translation calls the RangeMap specification makes.
MaxXlatOps == 2

\* How many ranges in all the file handlers report to the sinks.
MaxScanOps == 2

\* How many input files are scanned.
MaxFiles == 2

\* How many AddSizes calls the Rollup specification makes.
MaxRollupOps == 3

\* How many add calls in all fill the RangeMaps given to ComputeRollup.
MaxJoinOps == 3

\* How many RangeSink calls the sink specification makes.
MaxSinkOps == 3

\* How many regexes the NameMunger of the munger specification gets.
MaxRegexes == 2

\* Data sources selected with -d
MaxSources == 2

\* How many AddSizes calls the output specification makes on its start tree.
MaxRowOps == 2

\* The largest max_rows_per_level the output specification sets.
MaxRowsOption == 3

VARIABLES
  tmap,     \* RangeMap: filled by AddRange / AddDualRange; the translator
  smap,     \* RangeMap: the "self" map of AddRangeWithTranslation
  omap,     \* RangeMap: the "other" map of AddRangeWithTranslation
  call,     \* the RangeMap call being made (its name and arguments), or NoCall
  lastop,   \* the name of the last RangeMap call that returned
  nmapops,  \* number of AddRange / AddDualRange calls made
  nxlatops, \* number of AddRangeWithTranslation calls made
  jmaps,    \* ComputeRollup: range_maps, a sequence of RangeMaps
  jops,     \* number of AddRange calls made on each of jmaps
  jpc,      \* ComputeRollup: "build" (not called yet), "loop", "done"
  jfpos,    \* ComputeRollup: filename_position
  jiters,   \* ComputeRollup: iters
  jcur,     \* ComputeRollup: current
  jcalls,   \* ComputeRollup: the calls func(keys, current, next_break) made
  sources_,           \* Bloaty::sources_: how many data sources are selected
  filename_position_, \* Bloaty::filename_position_
  scanpc,   \* "config", "base" (in ProcessBaseMap), "sources" (in ProcessFile),
            \* "scanned" (ScanAndRollupFile returned), "error" (it threw)
  filesize, \* file.data().size() of the file being scanned
  maps_,    \* DualMaps::maps_ of the file being scanned: the base map first
  cursink,  \* ProcessFile: the sink the file handler is feeding
  nscanops, \* number of ranges the file handlers reported
  nfiles,   \* number of files scanned
  rollup,   \* the Rollup of ScanAndRollup
  ra,       \* Rollup A: it gets every AddSizes call, then Subtract(B)
  rb,       \* Rollup B: it gets the first calls
  rc,       \* Rollup C: it gets the calls after B's
  rcalls,   \* the AddSizes calls made on A, in order
  rpc,      \* "B", "C" (which of B and C gets the calls), "subtracted", "error"
  orollup,  \* the Rollup that ScanAndRollup turns into a RollupOutput
  obase,    \* the base Rollup of diff mode, or NoBase
  options_, \* Options: max_rows_per_level and sort_by
  output,   \* RollupOutput::toplevel_row_
  opc,      \* "build", "done" (the output is made), "error" (a throw)
  nrowops,  \* number of AddSizes calls made on orollup
  sink_base,  \* the base DualMap: the output of the base sink, the translator
  sink_out,   \* the DualMap of a data source: the output of its sink
  sink_call,  \* the last RangeSink call: its name, sink and arguments
  sink_pc,    \* "base" (ProcessBaseMap feeds the base sink), "sources"
  sink_ops,   \* number of RangeSink calls made
  regexes_,   \* NameMunger::regexes_: pairs of a pattern and a replacement
  munge_name, \* the name given to the last Munge call
  munge_ret,  \* what the last Munge call returned
  munge_pc,   \* "config" (no Munge call yet), "munged"
  all_known_sources_, \* Bloaty: name -> ConfiguredDataSource (definition, munger)
  def_sources,        \* Bloaty::sources_ as names, in the order selected
  def_call,   \* the last DefineCustomDataSource call: name, base, rewrite
  def_pc      \* BloatyDoMain: "config", "scan" (ScanAndRollup runs), "error"

rmvars == <<tmap, smap, omap, call, lastop, nmapops, nxlatops>>

jvars == <<jmaps, jops, jpc, jfpos, jiters, jcur, jcalls>>

svars == <<sources_, filename_position_, scanpc, filesize, maps_, cursink, nscanops,
           nfiles, rollup>>

rvars == <<ra, rb, rc, rcalls, rpc>>

ovars == <<orollup, obase, options_, output, opc, nrowops>>

kvars == <<sink_base, sink_out, sink_call, sink_pc, sink_ops>>

mvars == <<regexes_, munge_name, munge_ret, munge_pc>>

dvars == <<all_known_sources_, def_sources, def_call, def_pc>>

vars == <<rmvars, jvars, svars, rvars, ovars, kvars, mvars, dvars>>

\* What the RangeMap calls leave alone, what ComputeRollup leaves alone, and
\* what a scan leaves alone.
rmrest == <<jvars, svars, rvars, ovars, kvars, mvars, dvars>>

jrest == <<rmvars, svars, rvars, ovars, kvars, mvars, dvars>>

srest == <<rmvars, jvars, rvars, ovars, kvars, mvars, dvars>>

rrest == <<rmvars, jvars, svars, ovars, kvars, mvars, dvars>>

orest == <<rmvars, jvars, svars, rvars, kvars, mvars, dvars>>

krest == <<rmvars, jvars, svars, rvars, ovars, mvars, dvars>>

mrest == <<rmvars, jvars, svars, rvars, ovars, kvars, dvars>>

drest == <<rmvars, jvars, svars, rvars, ovars, kvars, mvars>>

----------------------------------------------------------------------------
(* Unsigned words *)

Word == 0..UINT64_MAX

\* uint64_t arithmetic: the result of + and - is reduced modulo 2^w.
U64(x) == x % (UINT64_MAX + 1)

SetMin(S) == CHOOSE x \in S : \A y \in S : x <= y

SetMax(S) == CHOOSE x \in S : \A y \in S : x >= y

RECURSIVE SumSeq(_)
SumSeq(q) == IF q = <<>> THEN 0 ELSE q[1] + SumSeq(Tail(q))

Min2(a, b) == IF a <= b THEN a ELSE b

Max2(a, b) == IF a >= b THEN a ELSE b

----------------------------------------------------------------------------
(* RangeMap: std::map<uint64_t, Entry>, a function from the start address  *)
(* to Entry {label, end, other_start}.  An iterator is a key, or END.      *)

END == -1

EmptyMap == [k \in {} |-> k]

Entry(label_, end_, other_) == [label |-> label_, end |-> end_, other_start |-> other_]

HasTranslation(e) == e.other_start # UINT64_MAX

MapBegin(m) == IF DOMAIN m = {} THEN END ELSE SetMin(DOMAIN m)

\* mappings_.upper_bound(addr): the first entry whose key is > addr.
UpperBound(m, addr) ==
  LET after == {k \in DOMAIN m : k > addr}
  IN IF after = {} THEN END ELSE SetMin(after)

\* ++it
IterNext(m, it) == UpperBound(m, it)

\* --it (only used when it # begin())
IterPrev(m, it) == SetMax({k \in DOMAIN m : it = END \/ k < it})

EntryContains(m, it, addr) == addr >= it /\ addr < m[it].end

RangeEnd(m, it) == m[it].end

IterIsEnd(m, it) == it = END

\* addr - iter->first + iter->second.other_start
TranslateWithEntry(m, it, addr) == U64(addr - it + m[it].other_start)

FindContaining(m, addr) ==
  LET it == UpperBound(m, addr)
  IN IF it = MapBegin(m) \/ ~EntryContains(m, IterPrev(m, it), addr)
       THEN END
       ELSE IterPrev(m, it)

\* A faulty search that forgets the entry containing addr.
FindAfter(m, addr) == UpperBound(m, addr)

FindContainingOrAfter(m, addr) ==
  LET after == UpperBound(m, addr)
  IN IF after # MapBegin(m) /\ EntryContains(m, IterPrev(m, after), addr)
       THEN IterPrev(m, after)
       ELSE after

\* bool Translate(addr, &translated): [ok, value]
Translate(m, addr) ==
  LET iter == FindContaining(m, addr)
  IN IF iter = END \/ ~HasTranslation(m[iter])
       THEN [ok |-> FALSE, value |-> 0]
       ELSE [ok |-> TRUE, value |-> TranslateWithEntry(m, iter, addr)]

\* std::map::insert(hint, pair): inserts unless the key is already present.
MapInsert(m, key, e) == IF key \in DOMAIN m THEN m ELSE (key :> e) @@ m

\* The inner loop of AddDualRange: skip the entries that cover addr.
RECURSIVE SkipCovered(_, _, _)
SkipCovered(m, it, addr) ==
  IF it # END /\ EntryContains(m, it, addr)
    THEN SkipCovered(m, IterNext(m, it), m[it].end)
    ELSE [it |-> it, addr |-> addr]

\* A faulty this_end that is not clipped at the next entry.
ThisEndUnclipped(it, end) == end

\* this_end of AddDualRange: the new entry is clipped at the next entry.
ThisEnd(it, end) == IF it # END /\ end > it THEN Min2(end, it) ELSE end

\* The translation base the new entry at addr gets.
OtherOf(addr, base, otheraddr) ==
  IF otheraddr = UINT64_MAX THEN UINT64_MAX ELSE U64(addr - base + otheraddr)

\* The outer while (1) loop of AddDualRange.
RECURSIVE AddDualLoop(_, _, _, _, _, _, _)
AddDualLoop(m, it, addr, end, base, otheraddr, val) ==
  LET s == SkipCovered(m, it, addr)
  IN IF s.addr >= end
       THEN m
       ELSE LET this_end == ThisEnd(s.it, end)
                other == OtherOf(s.addr, base, otheraddr)
            IN AddDualLoop(MapInsert(m, s.addr, Entry(val, this_end, other)),
                           s.it, this_end, end, base, otheraddr, val)

AddDualRange(m, addr, size, otheraddr, val) ==
  IF size = 0
    THEN m
    ELSE AddDualLoop(m, FindContainingOrAfter(m, addr), addr, U64(addr + size),
                     addr, otheraddr, val)

AddRange(m, addr, size, val) == AddDualRange(m, addr, size, UINT64_MAX, val)

\* bool TranslateAndTrimRangeWithEntry(iter, addr, end, &out_addr, &out_size)
TranslateAndTrimRangeWithEntry(m, it, addr, end) ==
  LET a == Max2(addr, it)
      e == Min2(end, m[it].end)
  IN IF a >= e \/ ~HasTranslation(m[it])
       THEN [ok |-> FALSE, addr |-> 0, size |-> 0]
       ELSE [ok |-> TRUE, addr |-> TranslateWithEntry(m, it, a), size |-> U64(e - a)]

\* The while loop of AddRangeWithTranslation over the translator's entries;
\* the result is |other| after the loop.
RECURSIVE TranslateLoop(_, _, _, _, _, _)
TranslateLoop(translator, it, addr, end, val, other) ==
  IF it # END /\ it < end
    THEN LET t == TranslateAndTrimRangeWithEntry(translator, it, addr, end)
         IN TranslateLoop(translator, IterNext(translator, it), addr, end, val,
                          IF t.ok THEN AddRange(other, t.addr, t.size, val) ELSE other)
    ELSE other

\* AddRangeWithTranslation(addr, size, val, translator, other) on self:
\* the new self and the new other.
AddRangeWithTranslation(self, addr, size, val, translator, other) ==
  [self  |-> AddRange(self, addr, size, val),
   other |-> TranslateLoop(translator, FindContainingOrAfter(translator, addr),
                           addr, U64(addr + size), val, other)]

----------------------------------------------------------------------------
(* The RangeMap specification: any sequence of add / add_dual calls on     *)
(* tmap, and of add_with_translation calls on smap with tmap as the        *)
(* translator and omap as the other map.  A call is made in two steps: the *)
(* caller chooses the arguments (Call...), then the whole function runs    *)
(* (Run...).                                                               *)

\* RangeMap stores labels and never reads them: the callers alternate between
\* two labels, so that consecutive calls are told apart.
MapLabels == <<"A", "B">>

NextLabel == MapLabels[((nmapops + nxlatops) % 2) + 1]

\* The arguments the callers use: addresses at the low end of the address
\* space and next to its top, sizes that make ranges overlap, touch, nest
\* and wrap around, and translation bases that include the sentinel.
MapAddrs == {0, 1, UINT64_MAX - 1}

MapSizes == {0, 1, 2, 3}

MapOthers == {0, UINT64_MAX - 2, UINT64_MAX}

NoCall == [op |-> "none", addr |-> 0, size |-> 0, other |-> 0, label |-> ""]

MkCall(op_, addr_, size_, other_, label_) ==
  [op |-> op_, addr |-> addr_, size |-> size_, other |-> other_, label |-> label_]

RangeMapIdle ==
  /\ tmap = EmptyMap
  /\ smap = EmptyMap
  /\ omap = EmptyMap
  /\ call = NoCall
  /\ lastop = "none"
  /\ nmapops = 0
  /\ nxlatops = 0

JoinIdle ==
  /\ jmaps = <<>>
  /\ jops = <<>>
  /\ jpc = "build"
  /\ jfpos = -1
  /\ jiters = <<>>
  /\ jcur = 0
  /\ jcalls = <<>>

\* Rollup: the tree of totals, a function from the path of a node (the labels
\* from the root down) to its vm_total_ and file_total_; the children of a
\* node are the paths one label longer.
ZeroNode == [vm_total |-> 0, file_total |-> 0]

EmptyRollup == (<<>> :> ZeroNode)

ScanIdle ==
  /\ sources_ = 0
  /\ filename_position_ = -1
  /\ scanpc = "config"
  /\ filesize = 0
  /\ maps_ = <<>>
  /\ cursink = 0
  /\ nscanops = 0
  /\ nfiles = 0
  /\ rollup = EmptyRollup

RollupIdle ==
  /\ ra = EmptyRollup
  /\ rb = EmptyRollup
  /\ rc = EmptyRollup
  /\ rcalls = <<>>
  /\ rpc = "B"

RowsIdle ==
  /\ orollup = EmptyRollup
  /\ obase = [present |-> FALSE, rollup |-> EmptyRollup]
  /\ options_ = [max_rows_per_level |-> 1, sort_by |-> "both"]
  /\ output = [name |-> "TOTAL", vmsize |-> 0, filesize |-> 0,
               vmpercent |-> [part |-> 0, whole |-> 0, init |-> FALSE],
               filepercent |-> [part |-> 0, whole |-> 0, init |-> FALSE],
               sorted_children |-> <<>>, shrinking |-> <<>>, mixed |-> <<>>,
               diff_mode |-> FALSE]
  /\ opc = "build"
  /\ nrowops = 0

SinkIdle ==
  /\ sink_base = [vm_map |-> <<>>, file_map |-> <<>>]
  /\ sink_out = [vm_map |-> <<>>, file_map |-> <<>>]
  /\ sink_call = [op |-> "none", translator |-> FALSE, vmaddr |-> 0, vmsize |-> 0,
                  fileoff |-> 0, filesize |-> 0, label |-> ""]
  /\ sink_pc = "base"
  /\ sink_ops = 0

MungeIdle ==
  /\ regexes_ = <<>>
  /\ munge_name = <<>>
  /\ munge_ret = <<>>
  /\ munge_pc = "config"

\* The data sources of the file format, as AddBuiltInSources gets them.
BuiltInSources == {"sections", "symbols"}

NoDefine == [name |-> "", base_data_source |-> "", rewrite |-> <<>>]

\* Bloaty::Bloaty: every built-in source is known, with an empty munger.
DefineIdle ==
  /\ all_known_sources_ = [n \in BuiltInSources |-> [definition |-> n, munger |-> <<>>]]
  /\ def_sources = <<>>
  /\ def_call = NoDefine
  /\ def_pc = "config"

\* Everything but the RangeMaps of the RangeMap specification is as
\* constructed.
RangeMapRest == JoinIdle /\ ScanIdle /\ RollupIdle /\ RowsIdle /\ SinkIdle /\ MungeIdle /\ DefineIdle

InitRangeMap == RangeMapIdle /\ RangeMapRest

CallAddRange ==
  \E addr \in MapAddrs, size \in MapSizes :
    /\ call = NoCall
    /\ nmapops < MaxMapOps
    /\ nxlatops = 0
    /\ call' = MkCall("add", addr, size, UINT64_MAX, NextLabel)
    /\ UNCHANGED <<tmap, smap, omap, lastop, nmapops, nxlatops, rmrest>>

CallAddDualRange ==
  \E addr \in MapAddrs, size \in MapSizes, otheraddr \in MapOthers :
    /\ call = NoCall
    /\ nmapops < MaxMapOps
    /\ nxlatops = 0
    /\ call' = MkCall("add_dual", addr, size, otheraddr, NextLabel)
    /\ UNCHANGED <<tmap, smap, omap, lastop, nmapops, nxlatops, rmrest>>

CallAddRangeWithTranslation ==
  \E addr \in MapAddrs, size \in MapSizes :
    /\ call = NoCall
    /\ nxlatops < MaxXlatOps
    /\ call' = MkCall("add_with_translation", addr, size, UINT64_MAX, NextLabel)
    /\ UNCHANGED <<tmap, smap, omap, lastop, nmapops, nxlatops, rmrest>>

RunAddRange ==
  /\ call.op = "add"
  /\ tmap' = AddRange(tmap, call.addr, call.size, call.label)
  /\ nmapops' = nmapops + 1
  /\ lastop' = call.op
  /\ call' = NoCall
  /\ UNCHANGED <<smap, omap, nxlatops, rmrest>>

RunAddDualRange ==
  /\ call.op = "add_dual"
  /\ tmap' = AddDualRange(tmap, call.addr, call.size, call.other, call.label)
  /\ nmapops' = nmapops + 1
  /\ lastop' = call.op
  /\ call' = NoCall
  /\ UNCHANGED <<smap, omap, nxlatops, rmrest>>

RunAddRangeWithTranslation ==
  /\ call.op = "add_with_translation"
  /\ LET r == AddRangeWithTranslation(smap, call.addr, call.size, call.label, tmap, omap)
     IN /\ smap' = r.self
        /\ omap' = r.other
  /\ nxlatops' = nxlatops + 1
  /\ lastop' = call.op
  /\ call' = NoCall
  /\ UNCHANGED <<tmap, nmapops, rmrest>>

NextRangeMap ==
  \/ CallAddRange
  \/ CallAddDualRange
  \/ CallAddRangeWithTranslation
  \/ RunAddRange
  \/ RunAddDualRange
  \/ RunAddRangeWithTranslation

SpecRangeMap == InitRangeMap /\ [][NextRangeMap]_vars

\* The calls on tmap alone (add and add_dual).
NextAdd ==
  \/ CallAddRange
  \/ CallAddDualRange
  \/ RunAddRange
  \/ RunAddDualRange

SpecAdd == InitRangeMap /\ [][NextAdd]_vars

----------------------------------------------------------------------------
(* Properties of RangeMap *)

\* The addresses an entry [k, m[k].end) holds.
EntryAddrs(m, k) == {a \in Word : a >= k /\ a < m[k].end}

Covered(m, a) == FindContaining(m, a) # END

\* The addresses of [start, start + size), the sum taken without wrap-around.
CallAddrs(c) == {a \in Word : a >= c.addr /\ a < c.addr + c.size}

\* A step in which the call c returns.
Returns(op) == call.op = op /\ call' = NoCall

NonOverlapping(m) ==
  \A k1 \in DOMAIN m : \A k2 \in DOMAIN m : k1 < k2 => m[k1].end <= k2

\* C1: after any sequence of add, add_dual and add_with_translation calls the
\* entries of a RangeMap never overlap: every entry ends at or before the
\* start of every later entry (so of the adjacent one).
C1_NonOverlap ==
  /\ NonOverlapping(tmap)
  /\ NonOverlapping(smap)
  /\ NonOverlapping(omap)

\* C1 witness: an add_with_translation call returned, on a translator that
\* holds several entries, and left several entries in both of its maps.
C1_Witness ==
  /\ lastop = "add_with_translation"
  /\ Cardinality(DOMAIN tmap) >= 2
  /\ Cardinality(DOMAIN smap) >= 2
  /\ Cardinality(DOMAIN omap) >= 2

\* What add / add_dual may change: m before the call c, m2 after it.
FirstWriterWins(m, m2, c) ==
  /\ \A k \in DOMAIN m : k \in DOMAIN m2 /\ m2[k] = m[k]
  /\ \A a \in Word : Covered(m, a) => FindContaining(m2, a) = FindContaining(m, a)
  /\ \A k \in DOMAIN m2 \ DOMAIN m :
       /\ m2[k].label = c.label
       /\ EntryAddrs(m2, k) # {}
       /\ EntryAddrs(m2, k) \subseteq CallAddrs(c)
       /\ \A a \in EntryAddrs(m2, k) : ~Covered(m, a)
       /\ \A k2 \in DOMAIN m : k2 > k => m2[k].end <= k2

\* The scaled S2 scenario: add(0, 2, A) then add(1, 2, B).
S2_Before == (0 :> Entry("A", 2, UINT64_MAX))

S2_After == (0 :> Entry("A", 2, UINT64_MAX)) @@ (2 :> Entry("B", 3, UINT64_MAX))

\* C2: insertion is first-writer-wins.  add and add_dual keep every existing
\* entry as it is (start, end, label, translation base), every address that
\* was covered keeps its covering entry, and the new entries carry the new
\* label, lie on previously uncovered addresses of [start, start+size) and end
\* at or before the next existing entry; add(0,2,A), add(1,2,B) leaves exactly
\* [0,2)->A and [2,3)->B.
C2_FirstWriterWins ==
  [][ (Returns("add") \/ Returns("add_dual")) =>
        /\ FirstWriterWins(tmap, tmap', call)
        /\ (tmap = S2_Before /\ call = MkCall("add", 1, 2, UINT64_MAX, "B"))
             => tmap' = S2_After ]_vars

\* C2 witness: the S2 scenario has run.
C2_Witness == lastop = "add" /\ tmap = S2_After

\* C3: after add_dual(s, n, o, _), every address a of [s, s+n) that was not
\* covered before the call translates to a - s + o, also when the range is
\* split around existing entries.  The statement is taken in its most
\* favourable reading: o is not the value AddRange passes for "no
\* translation", s + n does not wrap, and a - s + o stays in the word.
C3_AddDualTranslates ==
  [][ ( /\ Returns("add_dual")
        /\ call.other # UINT64_MAX
        /\ call.addr + call.size <= UINT64_MAX ) =>
        \A a \in CallAddrs(call) :
          (~Covered(tmap, a) /\ a - call.addr + call.other <= UINT64_MAX) =>
            Translate(tmap', a) = [ok |-> TRUE, value |-> a - call.addr + call.other] ]_vars

\* The entries add_with_translation(s, n, lbl, T, Out) adds to Out hold only
\* translations of addresses of [s, s+n).
OnlyTranslated(T, Out, Out2, c) ==
  \A k \in DOMAIN Out2 \ DOMAIN Out : \A b \in EntryAddrs(Out2, k) :
    \E a \in CallAddrs(c) : Translate(T, a) = [ok |-> TRUE, value |-> b]

\* C4: after add_with_translation(s, n, lbl, T, Out), for every address a of
\* [s, s+n) that T translates, Out covers T.translate(a) with label lbl unless
\* Out covered it before; and nothing else is added to Out.
C4_TranslatedCovered ==
  [][ Returns("add_with_translation") =>
        /\ \A a \in CallAddrs(call) :
             LET t == Translate(tmap, a)
             IN (t.ok /\ ~Covered(omap, t.value)) =>
                  /\ Covered(omap', t.value)
                  /\ omap'[FindContaining(omap', t.value)].label = call.label
        /\ OnlyTranslated(tmap, omap, omap', call) ]_vars

----------------------------------------------------------------------------
(* RangeMap::ComputeRollup, the N-way join, one loop iteration per step.   *)

\* The part of the loop body for one map: advance the iterator while its
\* range is behind the current point.
RECURSIVE Advance(_, _, _)
Advance(m, it, current) ==
  IF ~IterIsEnd(m, it) /\ RangeEnd(m, it) <= current
    THEN Advance(m, IterNext(m, it), current)
    ELSE it

\* A faulty label step that takes the iterator's entry although it starts
\* after the current point.
LabelOfIter(m, it, current) ==
  IF IterIsEnd(m, it)
    THEN [key |-> "[None]", have_data |-> FALSE, brk |-> UINT64_MAX]
    ELSE [key |-> m[it].label, have_data |-> TRUE, brk |-> RangeEnd(m, it)]

\* The part of the loop body for one map, after the advance: the label it
\* pushes, whether it has data, and its candidate for next_break
\* (UINT64_MAX: none).
LabelAndBreak(m, it, current) ==
  IF IterIsEnd(m, it) \/ it > current
    THEN [key |-> "[None]", have_data |-> FALSE,
          brk |-> IF IterIsEnd(m, it) THEN UINT64_MAX ELSE it]
    ELSE [key |-> m[it].label, have_data |-> TRUE, brk |-> RangeEnd(m, it)]

\* The for loop of one iteration of while (true), from map i on (1-based; the
\* code's index is i - 1): st holds iters, keys, next_break and have_data.
RECURSIVE ForEachMap(_, _, _, _, _, _)
ForEachMap(maps, i, current, fpos, filename, st) ==
  IF i > Len(maps)
    THEN [st EXCEPT !.keys = IF fpos = Len(maps) THEN Append(@, filename) ELSE @]
    ELSE LET it == Advance(maps[i], st.iters[i], current)
             lb == LabelAndBreak(maps[i], it, current)
             k0 == IF fpos = i - 1 THEN Append(st.keys, filename) ELSE st.keys
         IN ForEachMap(maps, i + 1, current, fpos, filename,
                       [iters      |-> [st.iters EXCEPT ![i] = it],
                        keys       |-> Append(k0, lb.key),
                        next_break |-> Min2(st.next_break, lb.brk),
                        have_data  |-> st.have_data \/ lb.have_data])

LoopBody(maps, iters, current, fpos, filename) ==
  ForEachMap(maps, 1, current, fpos, filename,
             [iters |-> iters, keys |-> <<>>, next_break |-> UINT64_MAX,
              have_data |-> FALSE])

JoinFilename == "file"

\* The labels of the entries of the i-th map: the callers alternate.
JoinLabels == <<<<"X", "Y">>, <<"Z", "W">>>>

\* How many RangeMaps ComputeRollup is given.
JoinCounts == {1, 2}

\* The ranges the maps are filled with: starts and sizes that make the
\* entries of different maps overlap, nest and touch, that reach UINT64_MAX
\* and that wrap around.
JoinAddrs == {0, 1, 3, UINT64_MAX - 2}

JoinSizes == {2, 3}

InitJoin ==
  /\ RangeMapIdle
  /\ ScanIdle
  /\ RollupIdle
  /\ RowsIdle
  /\ SinkIdle
  /\ MungeIdle
  /\ DefineIdle
  /\ \E n \in JoinCounts :
       /\ jmaps = [i \in 1..n |-> EmptyMap]
       /\ jops = [i \in 1..n |-> 0]
  /\ jpc = "build"
  /\ jfpos = -1
  /\ jiters = <<>>
  /\ jcur = 0
  /\ jcalls = <<>>

\* The caller adds a range to the i-th map (the maps are filled in order).
JoinAddRange ==
  \E i \in 1..Len(jmaps), addr \in JoinAddrs, size \in JoinSizes :
    /\ jpc = "build"
    /\ SumSeq(jops) < MaxJoinOps
    /\ \A j \in (i + 1)..Len(jmaps) : jops[j] = 0
    /\ jmaps' = [jmaps EXCEPT ![i] = AddRange(@, addr, size, JoinLabels[i][(jops[i] % 2) + 1])]
    /\ jops' = [jops EXCEPT ![i] = @ + 1]
    /\ UNCHANGED <<jpc, jfpos, jiters, jcur, jcalls, jrest>>

\* iters.back()->first: begin() of an empty map is end(), and reading through
\* it is undefined; the read yields some word.  |current| is the minimum of
\* these reads, and the loop only tells whether it is below the first real
\* key: the smallest and the largest word stand for all.
FirstKeys(m) == IF DOMAIN m = {} THEN {0, UINT64_MAX} ELSE {MapBegin(m)}

\* The for loop before the while loop, from map i on: the values |current|
\* may have after it, starting from one of |curs|.
RECURSIVE FirstCurrents(_, _, _)
FirstCurrents(maps, i, curs) ==
  IF i > Len(maps)
    THEN curs
    ELSE FirstCurrents(maps, i + 1,
                       {Min2(c, f) : c \in curs, f \in FirstKeys(maps[i])})

\* ComputeRollup up to the while loop.
RollupBegin ==
  \E fpos \in (-1)..Len(jmaps) :
  \E current \in FirstCurrents(jmaps, 1, {UINT64_MAX}) :
    /\ jpc = "build"
    /\ jfpos' = fpos
    /\ jiters' = [i \in 1..Len(jmaps) |-> MapBegin(jmaps[i])]
    /\ jcur' = current
    /\ jpc' = "loop"
    /\ UNCHANGED <<jmaps, jops, jcalls, jrest>>

\* One iteration of while (true).
RollupIterate ==
  /\ jpc = "loop"
  /\ LET st == LoopBody(jmaps, jiters, jcur, jfpos, JoinFilename)
     IN /\ jiters' = st.iters
        /\ IF st.next_break = UINT64_MAX
             THEN /\ jpc' = "done"
                  /\ UNCHANGED <<jcur, jcalls>>
             ELSE /\ jcalls' = IF st.have_data
                                 THEN Append(jcalls, [keys |-> st.keys, cur |-> jcur,
                                                      next |-> st.next_break])
                                 ELSE jcalls
                  /\ jcur' = st.next_break
                  /\ jpc' = "loop"
  /\ UNCHANGED <<jmaps, jops, jfpos, jrest>>

NextJoin ==
  \/ JoinAddRange
  \/ RollupBegin
  \/ RollupIterate

SpecJoin == InitJoin /\ [][NextJoin]_vars

----------------------------------------------------------------------------
(* Properties of ComputeRollup *)

\* The addresses of an emitted interval [cur, next).
IntervalAddrs(c) == {a \in Word : a >= c.cur /\ a < c.next}

\* The addresses some entry of some map covers.
JoinCovered == {a \in Word : \E i \in 1..Len(jmaps) : Covered(jmaps[i], a)}

\* The label map m gives address a.
LabelAt(m, a) == IF Covered(m, a) THEN m[FindContaining(m, a)].label ELSE "[None]"

\* A key tuple without the filename spliced in at filename_position.
MapKeys(keys, fpos) ==
  IF fpos < 0 THEN keys
  ELSE [i \in 1..(Len(keys) - 1) |-> IF i <= fpos THEN keys[i] ELSE keys[i + 1]]

\* C5: when ComputeRollup has returned, the intervals [cur, next) it passed to
\* the callback are non-empty, in strictly ascending order and pairwise
\* disjoint, and their union is exactly the set of addresses that at least
\* one entry of at least one map covers.
C5_IntervalsPartitionCovered ==
  jpc = "done" =>
    /\ \A i \in 1..Len(jcalls) : jcalls[i].cur < jcalls[i].next
    /\ \A i \in 1..(Len(jcalls) - 1) : jcalls[i].next <= jcalls[i + 1].cur
    /\ UNION {IntervalAddrs(jcalls[i]) : i \in 1..Len(jcalls)} = JoinCovered

\* The scaled S3 scenario: M1 = {[0,2)->X, [3,5)->Y}, M2 = {[1,4)->Z}.
S3_Maps ==
  << (0 :> Entry("X", 2, UINT64_MAX)) @@ (3 :> Entry("Y", 5, UINT64_MAX)),
     (1 :> Entry("Z", 4, UINT64_MAX)) >>

S3_Calls ==
  << [keys |-> <<"X", "[None]">>, cur |-> 0, next |-> 1],
     [keys |-> <<"X", "Z">>,      cur |-> 1, next |-> 2],
     [keys |-> <<"[None]", "Z">>, cur |-> 2, next |-> 3],
     [keys |-> <<"Y", "Z">>,      cur |-> 3, next |-> 4],
     [keys |-> <<"Y", "[None]">>, cur |-> 4, next |-> 5] >>

\* C6: for every interval [cur, next) passed to the callback and every map i,
\* the i-th label of the key tuple (the filename apart) is the label of map
\* i's entry containing cur, or "[None]" when there is none; that is so at
\* every address of [cur, next), and no entry of any map starts or ends
\* strictly inside the interval.  The S3 scenario yields its five calls.
C6_KeysAreLabels ==
  /\ \A n \in 1..Len(jcalls) :
       LET c == jcalls[n]
           labels == MapKeys(c.keys, jfpos)
       IN /\ c.cur < c.next
          /\ Len(labels) = Len(jmaps)
          /\ jfpos >= 0 => c.keys[jfpos + 1] = JoinFilename
          /\ \A i \in 1..Len(jmaps) :
               /\ \A a \in IntervalAddrs(c) : labels[i] = LabelAt(jmaps[i], a)
               /\ \A k \in DOMAIN jmaps[i] :
                    /\ ~(c.cur < k /\ k < c.next)
                    /\ ~(c.cur < jmaps[i][k].end /\ jmaps[i][k].end < c.next)
  /\ (jpc = "done" /\ jmaps = S3_Maps /\ jfpos = -1) => jcalls = S3_Calls

\* C6 witness: ComputeRollup has returned from the S3 scenario, five calls made.
C6_Witness == jpc = "done" /\ jmaps = S3_Maps /\ jfpos = -1 /\ Len(jcalls) = 5

----------------------------------------------------------------------------
(* Rollup: AddSizes, AddInternal, CheckedAdd, Subtract.                    *)

INT64_MIN == -INT64_MAX - 1

\* A faulty CheckedAdd that stores the value instead of adding it.
CheckedStore(accum, val) == [ok |-> TRUE, value |-> val]

\* A faulty CheckedAdd that never throws: the sum wraps into the signed word.
WrappingAdd(accum, val) ==
  [ok |-> TRUE, value |-> ((accum + val - INT64_MIN) % (2 * (INT64_MAX + 1))) + INT64_MIN]

\* CheckedAdd(&accum, val) with val unsigned: the sum, or "integer overflow".
CheckedAdd(accum, val) ==
  [ok |-> accum + val <= INT64_MAX /\ accum + val >= INT64_MIN, value |-> accum + val]

NodeAt(r, path) == IF path \in DOMAIN r THEN r[path] ELSE ZeroNode

\* AddInternal(names, i, size, is_vmsize) on the node at |path| (i counts from
\* 0 as in the code; names[i] is names[i + 1] here): the rollup, or ok = FALSE
\* when CheckedAdd throws.
RECURSIVE AddInternal(_, _, _, _, _, _)
AddInternal(r, path, names, i, size, is_vmsize) ==
  LET node == NodeAt(r, path)
      sum == CheckedAdd(IF is_vmsize THEN node.vm_total ELSE node.file_total, size)
      node2 == IF is_vmsize THEN [node EXCEPT !.vm_total = sum.value]
                            ELSE [node EXCEPT !.file_total = sum.value]
      r2 == (path :> node2) @@ r
  IN IF ~sum.ok
       THEN [ok |-> FALSE, rollup |-> r]
       ELSE IF i < Len(names)
              THEN AddInternal(r2, Append(path, names[i + 1]), names, i + 1, size,
                               is_vmsize)
              ELSE [ok |-> TRUE, rollup |-> r2]

\* A faulty AddSizes that starts at names[0].
AddSizesFromBase(r, names, size, is_vmsize) == AddInternal(r, <<>>, names, 0, size, is_vmsize)

AddSizes(r, names, size, is_vmsize) == AddInternal(r, <<>>, names, 1, size, is_vmsize)

\* The children of the node at |path|.
ChildPaths(r, path) ==
  {p \in DOMAIN r : Len(p) = Len(path) + 1 /\ SubSeq(p, 1, Len(path)) = path}

\* Subtract(other) on the node at |path|, and its loop over other's children.
RECURSIVE SubtractNode(_, _, _)
RECURSIVE SubtractChildren(_, _, _)
SubtractNode(r, other, path) ==
  LET node == NodeAt(r, path)
      node2 == [vm_total   |-> node.vm_total - other[path].vm_total,
                file_total |-> node.file_total - other[path].file_total]
  IN SubtractChildren((path :> node2) @@ r, other, ChildPaths(other, path))

SubtractChildren(r, other, todo) ==
  IF todo = {}
    THEN r
    ELSE LET p == CHOOSE q \in todo : TRUE
         IN SubtractChildren(SubtractNode(r, other, p), other, todo \ {p})

\* A faulty Subtract that does not recurse into other's children.
SubtractTotals(r, other) ==
  (<<>> :> [vm_total   |-> r[<<>>].vm_total - other[<<>>].vm_total,
            file_total |-> r[<<>>].file_total - other[<<>>].file_total]) @@ r

Subtract(r, other) == SubtractNode(r, other, <<>>)

----------------------------------------------------------------------------
(* RangeSink, DualMaps and Bloaty::ScanAndRollupFile.                      *)

EmptyDualMap == [vm_map |-> EmptyMap, file_map |-> EmptyMap]

\* A faulty AddRange that gives the file side the file offset as its
\* other-start.
SinkAddRangeUnmatched(out, label, vmaddr, vmsize, fileoff, fsize) ==
  LET common == Min2(vmsize, fsize)
      vm1 == AddDualRange(out.vm_map, vmaddr, common, fileoff, label)
      file1 == AddDualRange(out.file_map, fileoff, common, fileoff, label)
  IN [vm_map   |-> AddRange(vm1, U64(vmaddr + common), U64(vmsize - common), label),
      file_map |-> AddRange(file1, U64(fileoff + common), U64(fsize - common), label)]

\* RangeSink::AddRange on the output |out|.
SinkAddRange(out, label, vmaddr, vmsize, fileoff, fsize) ==
  LET common == Min2(vmsize, fsize)
      vm1 == AddDualRange(out.vm_map, vmaddr, common, fileoff, label)
      file1 == AddDualRange(out.file_map, fileoff, common, vmaddr, label)
  IN [vm_map   |-> AddRange(vm1, U64(vmaddr + common), U64(vmsize - common), label),
      file_map |-> AddRange(file1, U64(fileoff + common), U64(fsize - common), label)]

\* RangeSink::AddFileRange on the output |out|; has_translator is translator_
\* being non-null.
SinkAddFileRange(out, has_translator, translator, label, fileoff, fsize) ==
  IF has_translator
    THEN LET r == AddRangeWithTranslation(out.file_map, fileoff, fsize, label,
                                          translator.file_map, out.vm_map)
         IN [vm_map |-> r.other, file_map |-> r.self]
    ELSE out

\* A faulty AddVMRange that leaves the File map of the output alone.
SinkAddVMRangeOnly(out, translator, label, vmaddr, vmsize) ==
  [out EXCEPT !.vm_map = AddRange(@, vmaddr, vmsize, label)]

\* RangeSink::AddVMRange on the output |out| (translator_ is asserted).
SinkAddVMRange(out, translator, label, vmaddr, vmsize) ==
  LET r == AddRangeWithTranslation(out.vm_map, vmaddr, vmsize, label,
                                   translator.vm_map, out.file_map)
  IN [vm_map |-> r.self, file_map |-> r.other]

\* A faulty choice of output that makes every sink write to the base map.
SinkOutputBase(i) == 1

\* The output of the sink of the i-th source: the map maps.AppendMap() made
\* for it, after the base map.
SinkOutput(i) == i + 1

\* A faulty fill that leaves the base file map as the file handler made it.
NoFill(base, size) == base

\* maps.base_map()->file_map.AddRange(0, file.data().size(), "[None]")
FillBase(base, size) == [base EXCEPT !.file_map = AddRange(@, 0, size, "[None]")]

\* DualMaps::VmMaps and DualMaps::FileMaps
VmMaps(maps) == [i \in 1..Len(maps) |-> maps[i].vm_map]

FileMaps(maps) == [i \in 1..Len(maps) |-> maps[i].file_map]

\* The while loop of RangeMap::ComputeRollup run to its break: the calls made.
RECURSIVE RollupLoop(_, _, _, _, _, _)
RollupLoop(maps, iters, current, fpos, filename, calls) ==
  LET st == LoopBody(maps, iters, current, fpos, filename)
  IN IF st.next_break = UINT64_MAX
       THEN calls
       ELSE RollupLoop(maps, st.iters, st.next_break, fpos, filename,
                       IF st.have_data
                         THEN Append(calls, [keys |-> st.keys, cur |-> current,
                                             next |-> st.next_break])
                         ELSE calls)

\* RangeMap::ComputeRollup from the value |current| has before the loop.
ComputeRollup(maps, current, fpos, filename) ==
  RollupLoop(maps, [i \in 1..Len(maps) |-> MapBegin(maps[i])], current, fpos,
             filename, <<>>)

\* The callback of DualMaps::ComputeRollup applied to the calls from the i-th
\* on: rollup->AddSizes(keys, end - addr, is_vmsize).
RECURSIVE AddAllSizes(_, _, _, _)
AddAllSizes(r, calls, i, is_vmsize) ==
  IF i > Len(calls)
    THEN [ok |-> TRUE, rollup |-> r]
    ELSE LET a == AddSizes(r, calls[i].keys, U64(calls[i].next - calls[i].cur),
                           is_vmsize)
         IN IF a.ok THEN AddAllSizes(a.rollup, calls, i + 1, is_vmsize) ELSE a

\* DualMaps::ComputeRollup: the VM maps, then the file maps.
DualMapsComputeRollup(maps, vmcurrent, filecurrent, fpos, filename, r) ==
  LET v == AddAllSizes(r, ComputeRollup(VmMaps(maps), vmcurrent, fpos, filename),
                       1, TRUE)
  IN IF v.ok
       THEN AddAllSizes(v.rollup,
                        ComputeRollup(FileMaps(maps), filecurrent, fpos, filename),
                        1, FALSE)
       ELSE v

----------------------------------------------------------------------------
(* The scan specification: the user selects data sources, then             *)
(* ScanAndRollup scans the input files one after the other.  The file      *)
(* handler is the environment: it reports any ranges to the sinks, file    *)
(* ranges inside the file.                                                 *)

\* How many data sources the user may select.
ScanSourceCounts == {0, 1, 2}

\* The sizes of the input files.
ScanFileSizes == {1, 3}

\* The segments and sections the file handlers report with sink.AddRange:
\* with a longer VM range, with a longer file range, with equal ranges, and
\* without VM range.
ScanRanges ==
  { [vmaddr |-> 1, vmsize |-> 2, fileoff |-> 0, filesize |-> 1],
    [vmaddr |-> 3, vmsize |-> 1, fileoff |-> 1, filesize |-> 2],
    [vmaddr |-> 2, vmsize |-> 2, fileoff |-> 0, filesize |-> 2],
    [vmaddr |-> 0, vmsize |-> 0, fileoff |-> 2, filesize |-> 1] }

\* The file ranges the file handlers report with sink.AddFileRange.
ScanFileRanges ==
  { [fileoff |-> 0, filesize |-> 1],
    [fileoff |-> 0, filesize |-> 2],
    [fileoff |-> 1, filesize |-> 2] }

\* The VM ranges the file handlers report with sink.AddVMRange.
ScanVMRanges ==
  { [vmaddr |-> 1, vmsize |-> 1],
    [vmaddr |-> 2, vmsize |-> 2],
    [vmaddr |-> 1, vmsize |-> 3] }

\* The names the file handlers give the ranges: they alternate.
ScanLabels == <<"a", "b">>

ScanLabel == ScanLabels[(nscanops % 2) + 1]

\* file.filename() of the file being scanned.
ScanFilenames == <<"f", "g">>

ScanFilename == ScanFilenames[(nfiles % 2) + 1]

InitScan ==
  RangeMapIdle /\ JoinIdle /\ ScanIdle /\ RollupIdle /\ RowsIdle /\ SinkIdle /\ MungeIdle /\ DefineIdle

\* Bloaty::AddDataSource(name) for a known source.
AddDataSource ==
  /\ scanpc = "config"
  /\ sources_ + 1 \in ScanSourceCounts
  /\ sources_' = sources_ + 1
  /\ UNCHANGED <<filename_position_, scanpc, filesize, maps_, cursink, nscanops,
                 nfiles, rollup, srest>>

\* Bloaty::AddDataSource("inputfiles")
AddInputfilesSource ==
  /\ scanpc = "config"
  /\ filename_position_' = sources_ + 1
  /\ UNCHANGED <<sources_, scanpc, filesize, maps_, cursink, nscanops, nfiles,
                 rollup, srest>>

\* ScanAndRollupFile up to the call of ProcessBaseMap.
ScanBegin ==
  \E size \in ScanFileSizes :
    /\ scanpc \in {"config", "scanned"}
    /\ nfiles < MaxFiles
    /\ filesize' = size
    /\ maps_' = <<EmptyDualMap>>
    /\ cursink' = 0
    /\ scanpc' = "base"
    /\ UNCHANGED <<sources_, filename_position_, nscanops, nfiles, rollup, srest>>

\* ProcessBaseMap reports a segment or section: sink.AddRange on the base map.
BaseAddRange ==
  /\ scanpc = "base"
  /\ nscanops < MaxScanOps
  /\ \E r \in ScanRanges :
       /\ r.fileoff + r.filesize <= filesize
       /\ maps_' = [maps_ EXCEPT ![1] = SinkAddRange(@, ScanLabel, r.vmaddr, r.vmsize,
                                                      r.fileoff, r.filesize)]
  /\ nscanops' = nscanops + 1
  /\ UNCHANGED <<sources_, filename_position_, scanpc, filesize, cursink, nfiles,
                 rollup, srest>>

\* ScanAndRollupFile from the return of ProcessBaseMap to the call of
\* ProcessFile: the base file map is filled, one output map per source is
\* appended.
ScanSources ==
  /\ scanpc = "base"
  /\ maps_' = <<FillBase(maps_[1], filesize)>> \o [i \in 1..sources_ |-> EmptyDualMap]
  /\ cursink' = 1
  /\ scanpc' = "sources"
  /\ UNCHANGED <<sources_, filename_position_, filesize, nscanops, nfiles, rollup,
                 srest>>

\* ProcessFile feeds the sinks in order; sink i writes to maps_[i + 1] and
\* translates through the base map.
SourceAddFileRange ==
  /\ scanpc = "sources"
  /\ nscanops < MaxScanOps
  /\ \E i \in cursink..sources_, r \in ScanFileRanges :
       /\ r.fileoff + r.filesize <= filesize
       /\ maps_' = [maps_ EXCEPT ![SinkOutput(i)] = SinkAddFileRange(@, TRUE, maps_[1], ScanLabel,
                                                              r.fileoff, r.filesize)]
       /\ cursink' = i
  /\ nscanops' = nscanops + 1
  /\ UNCHANGED <<sources_, filename_position_, scanpc, filesize, nfiles, rollup,
                 srest>>

SourceAddVMRange ==
  /\ scanpc = "sources"
  /\ nscanops < MaxScanOps
  /\ \E i \in cursink..sources_, r \in ScanVMRanges :
       /\ maps_' = [maps_ EXCEPT ![SinkOutput(i)] = SinkAddVMRange(@, maps_[1], ScanLabel,
                                                            r.vmaddr, r.vmsize)]
       /\ cursink' = i
  /\ nscanops' = nscanops + 1
  /\ UNCHANGED <<sources_, filename_position_, scanpc, filesize, nfiles, rollup,
                 srest>>

SourceAddRange ==
  /\ scanpc = "sources"
  /\ nscanops < MaxScanOps
  /\ \E i \in cursink..sources_, r \in ScanRanges :
       /\ r.fileoff + r.filesize <= filesize
       /\ maps_' = [maps_ EXCEPT ![SinkOutput(i)] = SinkAddRange(@, ScanLabel, r.vmaddr, r.vmsize,
                                                          r.fileoff, r.filesize)]
       /\ cursink' = i
  /\ nscanops' = nscanops + 1
  /\ UNCHANGED <<sources_, filename_position_, scanpc, filesize, nfiles, rollup,
                 srest>>

\* ScanAndRollupFile from the return of ProcessFile: maps.ComputeRollup.  The
\* first key of an empty map is read through end(): some word.
ScanRollup ==
  /\ scanpc = "sources"
  /\ \E vmcurrent \in FirstCurrents(VmMaps(maps_), 1, {UINT64_MAX}),
        filecurrent \in FirstCurrents(FileMaps(maps_), 1, {UINT64_MAX}) :
       LET r == DualMapsComputeRollup(maps_, vmcurrent, filecurrent,
                                      filename_position_, ScanFilename, rollup)
       IN /\ rollup' = r.rollup
          /\ scanpc' = IF r.ok THEN "scanned" ELSE "error"
  /\ nfiles' = nfiles + 1
  /\ UNCHANGED <<sources_, filename_position_, filesize, maps_, cursink, nscanops,
                 srest>>

NextScan ==
  \/ AddDataSource
  \/ AddInputfilesSource
  \/ ScanBegin
  \/ BaseAddRange
  \/ ScanSources
  \/ SourceAddFileRange
  \/ SourceAddVMRange
  \/ SourceAddRange
  \/ ScanRollup

SpecScan == InitScan /\ [][NextScan]_vars

----------------------------------------------------------------------------
(* Properties of the scan *)

\* The step in which ScanAndRollupFile returns.
ScanReturns == scanpc = "sources" /\ scanpc' = "scanned"

\* The file offsets no source labels.
Unlabelled ==
  {a \in 0..(filesize - 1) :
     \A i \in 2..Len(maps_) : ~Covered(maps_[i].file_map, a)}

\* The path of the node that gets the bytes no source labels: "[None]" for
\* every source, and the file name where "inputfiles" was selected.
NonePath ==
  LET n == sources_ + (IF filename_position_ >= 0 THEN 1 ELSE 0)
  IN [i \in 1..n |-> IF i = filename_position_ THEN ScanFilename ELSE "[None]"]

\* C7: when the scan of a non-empty file of size S returns, the handlers
\* having reported only file ranges inside [0, S), the root's file_total has
\* grown by exactly S, and the bytes no source labels have been added to the
\* file_total of the "[None]" node.
C7_FileTotalGrowsBySize ==
  [][ ScanReturns =>
        /\ rollup'[<<>>].file_total = rollup[<<>>].file_total + filesize
        /\ Unlabelled # {} =>
             /\ NonePath \in DOMAIN rollup'
             /\ rollup'[NonePath].file_total =
                  NodeAt(rollup, NonePath).file_total + Cardinality(Unlabelled) ]_vars

\* C7 witness: a second file of size 3 has been scanned with two sources that
\* labelled some of its bytes and left others unlabelled.
C7_Witness ==
  /\ scanpc = "scanned"
  /\ nfiles = 2
  /\ filesize = 3
  /\ sources_ = 2
  /\ \E a \in 0..2 : Covered(maps_[2].file_map, a) \/ Covered(maps_[3].file_map, a)
  /\ Unlabelled # {}
  /\ rollup[<<>>].file_total > 3

----------------------------------------------------------------------------
(* The Rollup specification: AddSizes calls build B, then C, and A gets    *)
(* them all; then A.Subtract(B).                                           *)

\* The key tuples (names[0] is the base map's label), sizes and domains of
\* the AddSizes calls; the largest size exceeds INT64_MAX.
RollupNames == {<<"b", "x">>, <<"b", "y">>, <<"b", "x", "y">>}

RollupSizes == {1, 6, UINT64_MAX - 1}

InitRollup ==
  RangeMapIdle /\ JoinIdle /\ ScanIdle /\ RollupIdle /\ RowsIdle /\ SinkIdle /\ MungeIdle /\ DefineIdle

\* rollup.AddSizes(names, size, is_vmsize) on A and on B.
AddSizesB ==
  /\ rpc = "B"
  /\ Len(rcalls) < MaxRollupOps
  /\ \E names \in RollupNames, size \in RollupSizes, is_vmsize \in BOOLEAN :
       LET a == AddSizes(ra, names, size, is_vmsize)
           b == AddSizes(rb, names, size, is_vmsize)
       IN IF a.ok /\ b.ok
            THEN /\ ra' = a.rollup
                 /\ rb' = b.rollup
                 /\ rcalls' = Append(rcalls, [names |-> names, size |-> size,
                                              is_vmsize |-> is_vmsize])
                 /\ rpc' = "B"
            ELSE /\ rpc' = "error"
                 /\ UNCHANGED <<ra, rb, rcalls>>
  /\ UNCHANGED <<rc, rrest>>

\* rollup.AddSizes(names, size, is_vmsize) on A and on C.
AddSizesC ==
  /\ rpc \in {"B", "C"}
  /\ Len(rcalls) < MaxRollupOps
  /\ \E names \in RollupNames, size \in RollupSizes, is_vmsize \in BOOLEAN :
       LET a == AddSizes(ra, names, size, is_vmsize)
           c == AddSizes(rc, names, size, is_vmsize)
       IN IF a.ok /\ c.ok
            THEN /\ ra' = a.rollup
                 /\ rc' = c.rollup
                 /\ rcalls' = Append(rcalls, [names |-> names, size |-> size,
                                              is_vmsize |-> is_vmsize])
                 /\ rpc' = "C"
            ELSE /\ rpc' = "error"
                 /\ UNCHANGED <<ra, rc, rcalls>>
  /\ UNCHANGED <<rb, rrest>>

\* A.Subtract(B)
SubtractB ==
  /\ rpc \in {"B", "C"}
  /\ ra' = Subtract(ra, rb)
  /\ rpc' = "subtracted"
  /\ UNCHANGED <<rb, rc, rcalls, rrest>>

NextRollup ==
  \/ AddSizesB
  \/ AddSizesC
  \/ SubtractB

SpecRollup == InitRollup /\ [][NextRollup]_vars

----------------------------------------------------------------------------
(* Properties of Rollup *)

\* The permutations of 1..n.
Perms(n) == {f \in [1..n -> 1..n] : \A i, j \in 1..n : f[i] = f[j] => i = j}

\* The calls applied to r in the order |order|, from the i-th on.
RECURSIVE ApplyCalls(_, _, _, _)
ApplyCalls(r, calls, order, i) ==
  IF i > Len(calls)
    THEN [ok |-> TRUE, rollup |-> r]
    ELSE LET c == calls[order[i]]
             a == AddSizes(r, c.names, c.size, c.is_vmsize)
         IN IF a.ok THEN ApplyCalls(a.rollup, calls, order, i + 1) ELSE a

\* C8: AddSizes is order-independent: as long as no call has overflowed,
\* every permutation of the calls made so far, applied to an empty Rollup,
\* overflows nowhere and yields the tree the calls built (the same nodes with
\* the same vm_total and file_total).
C8_AddSizesOrderIndependent ==
  rpc \in {"B", "C"} =>
    \A order \in Perms(Len(rcalls)) :
      ApplyCalls(EmptyRollup, rcalls, order, 1) = [ok |-> TRUE, rollup |-> ra]

\* C8 witness: three calls with different key tuples, sizes and domains built
\* a tree.
C8_Witness ==
  /\ rpc \in {"B", "C"}
  /\ Len(rcalls) = 3
  /\ rcalls[1].names # rcalls[2].names
  /\ rcalls[2].names # rcalls[3].names
  /\ rcalls[1].size # rcalls[2].size
  /\ rcalls[1].is_vmsize # rcalls[3].is_vmsize
  /\ rcalls[1].is_vmsize = rcalls[2].is_vmsize

\* C9 as stated: after A.Subtract(B), A equals C: the same nodes at every
\* level, with the same totals.
C9_SubtractEqualsC == rpc = "subtracted" => ra = rc

\* C9, amended: after A.Subtract(B), A has the same totals as C at every node
\* of C; the nodes of B stay in A, those that are not in C with both totals 0.
C9_SubtractNumericallyC ==
  rpc = "subtracted" =>
    /\ DOMAIN ra = DOMAIN rb \cup DOMAIN rc
    /\ \A p \in DOMAIN ra : ra[p] = NodeAt(rc, p)

\* C9 witness: B and C both got calls, B has a node C lacks, and B was
\* subtracted.
C9_Witness ==
  /\ rpc = "subtracted"
  /\ rc # EmptyRollup
  /\ \E p \in DOMAIN rb : p \notin DOMAIN rc
  /\ \E p \in DOMAIN rc : p \notin DOMAIN rb

----------------------------------------------------------------------------
(* The collapser: Rollup::CreateDiffModeRollupOutput, Rollup::CreateRows   *)
(* and Rollup::ComputeRows.  A Rollup argument is a tree of its own (the   *)
(* paths start at its root); the percentages of a row are left out.        *)

others_label == "[Other]"

\* std::string operator< on the names that occur: their order.
NameOrder == <<"TOTAL", "[None]", "[Other]", "[Unmapped]", "a", "b", "c", "d", "e">>

NameIndex(n) == CHOOSE i \in 1..Len(NameOrder) : NameOrder[i] = n

NameLess(x, y) == NameIndex(x) < NameIndex(y)

Abs(x) == IF x < 0 THEN -x ELSE x

\* A faulty SignOf that takes a positive value for a negative one.
SignOfFlipped(val) == IF val > 0 THEN -1 ELSE IF val < 0 THEN 1 ELSE 0

SignOf(val) == IF val < 0 THEN -1 ELSE IF val > 0 THEN 1 ELSE 0

\* A double holding part / whole * 100, and a double never assigned.
Uninitialized == [part |-> 0, whole |-> 0, init |-> FALSE]

\* Percent(ssize_t part, size_t whole): the conversion to size_t wraps a
\* negative whole.
Percent(part, whole) == [part |-> part, whole |-> U64(whole), init |-> TRUE]

\* The double 100.
Hundred == [part |-> 1, whole |-> 1, init |-> TRUE]

\* std::isnan, std::isinf and == on the double part / whole * 100.
IsNaN(percent) == percent.part = 0 /\ percent.whole = 0

IsInf(percent) == percent.part # 0 /\ percent.whole = 0

IsZero(percent) == percent.part = 0 /\ percent.whole # 0

IsMinusHundred(percent) == percent.whole # 0 /\ percent.part = -percent.whole

\* A faulty PercentString that always prints the number.
PercentStringPlain(percent, diff_mode) == "number"

\* PercentString: the three tags of diff mode, or the number printed (which
\* digits is left out).
PercentString(percent, diff_mode) ==
  IF diff_mode
    THEN IF IsZero(percent) \/ IsNaN(percent) THEN " [ = ]"
         ELSE IF IsMinusHundred(percent) THEN " [DEL]"
         ELSE IF IsInf(percent) THEN " [NEW]"
         ELSE "number"
    ELSE "number"

RollupRow(name_) ==
  [name |-> name_, vmsize |-> 0, filesize |-> 0, vmpercent |-> Uninitialized,
   filepercent |-> Uninitialized, sorted_children |-> <<>>, shrinking |-> <<>>,
   mixed |-> <<>>, diff_mode |-> FALSE]

\* No base Rollup (base == nullptr), and a base Rollup.
NoBase == [present |-> FALSE, rollup |-> EmptyRollup]

BaseOf(r) == [present |-> TRUE, rollup |-> r]

\* The names of children_, and the child Rollup of a name.
ChildNames(r) == {p[1] : p \in {q \in DOMAIN r : Len(q) = 1}}

ChildRollup(r, name) ==
  [p \in {Tail(q) : q \in {q2 \in DOMAIN r : Len(q2) >= 1 /\ q2[1] = name}}
     |-> r[<<name>> \o p]]

\* The rank lambda of ComputeRows: (INT64_MAX - val_to_rank, name), compared
\* as tuples.
ValToRank(row, sort_by) ==
  CASE sort_by = "vm"   -> Abs(row.vmsize)
    [] sort_by = "file" -> Abs(row.filesize)
    [] sort_by = "both" -> Max2(Abs(row.vmsize), Abs(row.filesize))

\* A faulty rank comparison that leaves out the name.
RankLessNumeric(a, b, sort_by) == ValToRank(a, sort_by) > ValToRank(b, sort_by)

RankLess(a, b, sort_by) ==
  LET na == INT64_MAX - ValToRank(a, sort_by)
      nb == INT64_MAX - ValToRank(b, sort_by)
  IN na < nb \/ (na = nb /\ NameLess(a.name, b.name))

\* A faulty collapse_rank that is the rank alone.
CollapseRankLessPlain(a, b, sort_by) == RankLess(a, b, sort_by)

\* The collapse_rank lambda: (name != "[None]", rank).
CollapseRankLess(a, b, sort_by) ==
  LET ta == a.name # "[None]"
      tb == b.name # "[None]"
  IN (~ta /\ tb) \/ (ta = tb /\ RankLess(a, b, sort_by))

\* std::sort of rows with MakeRankComparator(collapse_rank) or (rank): the
\* row with p - 1 rows before it in the order comes p-th.  The names of the
\* rows of a node differ, so no two rows compare equal; rows that did would
\* keep the order they came in.
SortRows(rows, collapse, sort_by) ==
  LET Less(a, b) == IF collapse THEN CollapseRankLess(a, b, sort_by)
                                ELSE RankLess(a, b, sort_by)
      Before(k) == Cardinality({j \in 1..Len(rows) :
                                  \/ Less(rows[j], rows[k])
                                  \/ j < k /\ ~Less(rows[k], rows[j])})
  IN [p \in 1..Len(rows) |-> rows[CHOOSE k \in 1..Len(rows) : Before(k) = p - 1]]

\* A faulty choice of list that looks at the VM size only.
RowListByVm(node) == IF node.vm_total < 0 THEN "shrinking" ELSE "sorted_children"

\* The list CreateRows appends a child to.
RowList(node) ==
  LET vm_sign == SignOf(node.vm_total)
      file_sign == SignOf(node.file_total)
  IN IF vm_sign + file_sign < 0 THEN "shrinking"
     ELSE IF vm_sign # file_sign /\ vm_sign + file_sign = 0 THEN "mixed"
     ELSE "sorted_children"

\* A faulty for loop of CreateRows that appends a child only when its
\* vm_total_ is not 0.
ChildRowsVmOnly(r, list) ==
  LET names == {n \in ChildNames(r) : RowList(r[<<n>>]) = list /\ r[<<n>>].vm_total # 0}
      Before(n) == Cardinality({x \in names : NameLess(x, n)})
  IN [p \in 1..Cardinality(names) |->
        LET n == CHOOSE x \in names : Before(x) = p - 1
        IN [RollupRow(n) EXCEPT !.vmsize = r[<<n>>].vm_total,
                                !.filesize = r[<<n>>].file_total]]

\* The rows the for loop of CreateRows appends to one list.  children_ is
\* unordered and ComputeRows sorts the rows before their order matters: they
\* are listed by name.
ChildRows(r, list) ==
  LET names == {n \in ChildNames(r) :
                  /\ RowList(r[<<n>>]) = list
                  /\ r[<<n>>].vm_total # 0 \/ r[<<n>>].file_total # 0}
      Before(n) == Cardinality({x \in names : NameLess(x, n)})
  IN [p \in 1..Cardinality(names) |->
        LET n == CHOOSE x \in names : Before(x) = p - 1
        IN [RollupRow(n) EXCEPT !.vmsize = r[<<n>>].vm_total,
                                !.filesize = r[<<n>>].file_total]]

\* ComputeRows without its while loop.
KeepAllRows(rows, i, max_rows_per_level, base, acc) == [acc EXCEPT !.rows = rows]

\* A faulty turn of the while loop that keeps only the last row's sizes.
CollapseStepLast(row, base, acc) ==
  [ok |-> TRUE, rows |-> <<>>, vmsize |-> row.vmsize, filesize |-> row.filesize,
   base_vm |-> 0, base_file |-> 0]

\* One turn of the while loop of ComputeRows on child_rows[i]: others_row's
\* sizes and others_base's totals; ok = FALSE when CheckedAdd throws.
CollapseStep(row, base, acc) ==
  LET vm == CheckedAdd(acc.vmsize, row.vmsize)
      file == CheckedAdd(acc.filesize, row.filesize)
      in_base == base.present /\ row.name \in ChildNames(base.rollup)
      bvm == IF in_base
               THEN CheckedAdd(acc.base_vm, base.rollup[<<row.name>>].vm_total)
               ELSE [ok |-> TRUE, value |-> acc.base_vm]
      bfile == IF in_base
                 THEN CheckedAdd(acc.base_file, base.rollup[<<row.name>>].file_total)
                 ELSE [ok |-> TRUE, value |-> acc.base_file]
  IN [ok |-> vm.ok /\ file.ok /\ bvm.ok /\ bfile.ok, rows |-> <<>>,
      vmsize |-> vm.value, filesize |-> file.value,
      base_vm |-> bvm.value, base_file |-> bfile.value]

\* The while loop of ComputeRows from index i (0-based, as in the code) down:
\* the rows left, others_row's sizes and others_base's totals.
RECURSIVE CollapseLoop(_, _, _, _, _)
CollapseLoop(rows, i, max_rows_per_level, base, acc) ==
  IF i >= max_rows_per_level /\ acc.ok
    THEN CHOOSE kept \in {CollapseLoop(rows, i - 1, max_rows_per_level, base, next) :
                            next \in {CollapseStep(rows[i + 1], base, acc)}} : TRUE
    ELSE [acc EXCEPT !.rows = SubSeq(rows, 1, i + 1)]

RECURSIVE CreateRows(_, _, _, _, _)
RECURSIVE ComputeRows(_, _, _, _, _, _)

\* The last for loop of ComputeRows: every row gets its own rows, from
\* others_rollup when it is the "[Other]" row and from the child of its name
\* otherwise.
CreateChildRows(r, rows, base, options, others_rollup, others_base) ==
  LET Child(k) ==
        LET child_row == rows[k]
            is_others == child_row.name = others_label
            child_rollup == IF is_others THEN others_rollup
                            ELSE ChildRollup(r, child_row.name)
            child_base == IF ~base.present THEN NoBase
                          ELSE IF is_others THEN BaseOf(others_base)
                          ELSE IF child_row.name \in ChildNames(base.rollup)
                                 THEN BaseOf(ChildRollup(base.rollup, child_row.name))
                                 ELSE BaseOf(EmptyRollup)
        IN CHOOSE done \in {CreateRows(cr, child_row, cb, options, FALSE) :
                              cr \in {child_rollup}, cb \in {child_base}} : TRUE
  IN CHOOSE all \in {[ok |-> \A k \in 1..Len(rows) : done[k].ok,
                      rows |-> [k \in 1..Len(rows) |-> done[k].row]] :
                       done \in {[k \in 1..Len(rows) |-> Child(k)]}} : TRUE

\* ComputeRows after its two checks, on the rows sorted by collapse_rank.
CollapseAndRecurse(r, row, sorted, base, options) ==
  LET kept == CollapseLoop(sorted, Len(sorted) - 1, options.max_rows_per_level, base,
                           [ok |-> TRUE, rows |-> sorted, vmsize |-> 0, filesize |-> 0,
                            base_vm |-> 0, base_file |-> 0])
      Rest(k) ==
        LET has_others == Abs(k.vmsize) > 0 \/ Abs(k.filesize) > 0
            others_row == [RollupRow(others_label) EXCEPT !.vmsize = k.vmsize,
                                                          !.filesize = k.filesize]
            others_rollup == IF has_others
                               THEN (<<>> :> [vm_total |-> k.vmsize, file_total |-> k.filesize])
                               ELSE EmptyRollup
            others_base == (<<>> :> [vm_total |-> k.base_vm, file_total |-> k.base_file])
            with_others == IF has_others THEN Append(k.rows, others_row) ELSE k.rows
            WithPercents(rows) ==
              IF base.present
                THEN rows
                ELSE [j \in 1..Len(rows) |->
                        [rows[j] EXCEPT !.vmpercent = Percent(rows[j].vmsize, row.vmsize),
                                        !.filepercent = Percent(rows[j].filesize, row.filesize)]]
        IN IF ~k.ok
             THEN [ok |-> FALSE, rows |-> <<>>]
             ELSE CHOOSE all \in {CreateChildRows(r, WithPercents(ranked), base, options,
                                                    others_rollup, others_base) :
                                    ranked \in {SortRows(with_others, FALSE, options.sort_by)}} : TRUE
  IN CHOOSE all \in {Rest(k) : k \in {kept}} : TRUE

\* A faulty ComputeRows that prunes nothing.
ComputeRowsUnpruned(r, row, child_rows, base, options, is_toplevel) ==
  IF child_rows = <<>>
    THEN [ok |-> TRUE, rows |-> <<>>]
    ELSE CHOOSE all \in {CollapseAndRecurse(r, row, sorted, base, options) :
                           sorted \in {SortRows(child_rows, TRUE, options.sort_by)}} : TRUE

ComputeRows(r, row, child_rows, base, options, is_toplevel) ==
  LET pruned == IF ~is_toplevel /\ Len(child_rows) = 1
                   /\ child_rows[1].name \in {"[None]", "[Unmapped]"}
                  THEN <<>> ELSE child_rows
      pruned2 == IF Len(pruned) = 1 /\ pruned[1].name = row.name THEN <<>> ELSE pruned
  IN IF pruned2 = <<>>
       THEN [ok |-> TRUE, rows |-> <<>>]
       ELSE CHOOSE all \in {CollapseAndRecurse(r, row, sorted, base, options) :
                              sorted \in {SortRows(pruned2, TRUE, options.sort_by)}} : TRUE

CreateRows(r, row, base, options, is_toplevel) ==
  CHOOSE created \in
    {[ok |-> sorted_children.ok /\ shrinking.ok /\ mixed.ok,
      row |-> [row EXCEPT
                 !.vmpercent = IF base.present
                                 THEN Percent(r[<<>>].vm_total, base.rollup[<<>>].vm_total)
                                 ELSE @,
                 !.filepercent = IF base.present
                                   THEN Percent(r[<<>>].file_total, base.rollup[<<>>].file_total)
                                   ELSE @,
                 !.diff_mode = IF base.present THEN TRUE ELSE @,
                 !.sorted_children = sorted_children.rows,
                 !.shrinking = shrinking.rows,
                 !.mixed = mixed.rows]] :
       sorted_children \in {ComputeRows(r, row, ChildRows(r, "sorted_children"),
                                        base, options, is_toplevel)},
       shrinking \in {ComputeRows(r, row, ChildRows(r, "shrinking"),
                                  base, options, is_toplevel)},
       mixed \in {ComputeRows(r, row, ChildRows(r, "mixed"),
                              base, options, is_toplevel)}} : TRUE

\* CreateRollupOutput is CreateDiffModeRollupOutput with base == nullptr.
CreateDiffModeRollupOutput(r, base, options) ==
  CreateRows(r, [RollupRow("TOTAL") EXCEPT !.vmsize = r[<<>>].vm_total,
                                           !.filesize = r[<<>>].file_total,
                                           !.vmpercent = Hundred,
                                           !.filepercent = Hundred],
             base, options, TRUE)

----------------------------------------------------------------------------
(* The output specification: AddSizes calls on top of a start tree, then   *)
(* the RollupOutput is made, in normal mode or in diff mode.               *)

\* A node's totals.
Totals(vm, file) == [vm_total |-> vm, file_total |-> file]

\* The Rollup of AddSizes calls for five children of the root with VM sizes
\* 8, 7, 6, 5, 4.
ExampleRollup ==
  (<<>> :> Totals(30, 0)) @@ (<<"a">> :> Totals(8, 0)) @@ (<<"b">> :> Totals(7, 0))
    @@ (<<"c">> :> Totals(6, 0)) @@ (<<"d">> :> Totals(5, 0)) @@ (<<"e">> :> Totals(4, 0))

\* The Rollup of AddSizes calls on two levels: a child with three children,
\* a "[None]" whose only child is "[None]", and a child whose only child has
\* its name.
NestedRollup ==
  (<<>> :> Totals(6, 3)) @@ (<<"a">> :> Totals(6, 0)) @@ (<<"a", "b">> :> Totals(3, 0))
    @@ (<<"a", "c">> :> Totals(2, 0)) @@ (<<"a", "d">> :> Totals(1, 0))
    @@ (<<"[None]">> :> Totals(0, 2)) @@ (<<"[None]", "[None]">> :> Totals(0, 2))
    @@ (<<"c">> :> Totals(0, 1)) @@ (<<"c", "c">> :> Totals(0, 1))

\* The Rollup of one AddSizes call with two data sources: a child whose only
\* child is "[Unmapped]".
UnmappedRollup ==
  (<<>> :> Totals(3, 0)) @@ (<<"a">> :> Totals(3, 0))
    @@ (<<"a", "[Unmapped]">> :> Totals(3, 0))

\* The Rollup of one AddSizes call for a child that has the name of the root
\* row.
TotalRollup == (<<>> :> Totals(2, 0)) @@ (<<"TOTAL">> :> Totals(2, 0))

\* The Rollup of AddSizes calls for three children with sizes in both
\* domains.
MixedRollup ==
  (<<>> :> Totals(9, 4)) @@ (<<"b">> :> Totals(5, 1)) @@ (<<"c">> :> Totals(3, 1))
    @@ (<<"d">> :> Totals(1, 2))

RowTrees ==
  {EmptyRollup, ExampleRollup, NestedRollup, UnmappedRollup, TotalRollup, MixedRollup}

\* The Rollup of the base files in diff mode.
BaseRollup ==
  (<<>> :> Totals(22, 2)) @@ (<<"b">> :> Totals(9, 0)) @@ (<<"c">> :> Totals(0, 2))
    @@ (<<"d">> :> Totals(6, 0)) @@ (<<"e">> :> Totals(4, 0)) @@ (<<"[None]">> :> Totals(3, 0))

\* The Rollup of the base files in diff mode, with two data sources.
NestedBaseRollup ==
  (<<>> :> Totals(5, 2)) @@ (<<"a">> :> Totals(5, 0)) @@ (<<"a", "b">> :> Totals(4, 0))
    @@ (<<"a", "e">> :> Totals(1, 0)) @@ (<<"c">> :> Totals(0, 2))
    @@ (<<"c", "c">> :> Totals(0, 2))

\* The number of data sources a Rollup was built with: every AddSizes call of
\* a run has one key per source after the base map's.
RowSources(r) == IF \E p \in DOMAIN r : Len(p) = 2 THEN 2 ELSE 1

\* The base Rollup of a run with as many data sources.
BaseRollupFor(r) == IF RowSources(r) = 2 THEN NestedBaseRollup ELSE BaseRollup

\* The Rollup of other base files: against MixedRollup, "b" and "c" grew in
\* the VM domain and shrank in the file, and "d" the other way round.
MixedBaseRollup ==
  (<<>> :> Totals(5, 7)) @@ (<<"b">> :> Totals(1, 4)) @@ (<<"c">> :> Totals(1, 2))
    @@ (<<"d">> :> Totals(3, 1))

\* The base Rollups a run with as many data sources can have.
BaseRollupsFor(r) ==
  IF RowSources(r) = 2 THEN {BaseRollupFor(r)} ELSE {BaseRollupFor(r), MixedBaseRollup}

\* The key tuples of the AddSizes calls (names[0] is the base map's label).
RowNames(r) ==
  IF RowSources(r) = 2
    THEN {<<"b", "[None]", "[None]">>, <<"b", "a", "b">>, <<"b", "a", "e">>}
    ELSE {<<"b", "[None]">>, <<"b", "a">>, <<"b", "e">>}

RowSizes == {1, 4}

SortBys == {"vm", "file", "both"}

\* max_rows_per_level, as given with -n.
MaxRowsOptions == 0..MaxRowsOption

\* A faulty option check that lets every max_rows_per_level through.
OptionsAcceptedAlways(options) == TRUE

\* The option check of BloatyDoMain: "max_rows_per_level must be at least 1"
\* is thrown otherwise.
OptionsAccepted(options) == options.max_rows_per_level >= 1

InitRows ==
  /\ RangeMapIdle
  /\ JoinIdle
  /\ ScanIdle
  /\ RollupIdle
  /\ SinkIdle
  /\ MungeIdle
  /\ DefineIdle
  /\ orollup \in RowTrees
  /\ obase = NoBase
  /\ options_ = [max_rows_per_level |-> 1, sort_by |-> "both"]
  /\ output = RollupRow("TOTAL")
  /\ opc = "build"
  /\ nrowops = 0

\* rollup->AddSizes(keys, end - addr, is_vmsize), from DualMaps::ComputeRollup
RowsAddSizes ==
  /\ opc = "build"
  /\ nrowops < MaxRowOps
  /\ \E names \in RowNames(orollup), size \in RowSizes, is_vmsize \in BOOLEAN :
       LET a == AddSizes(orollup, names, size, is_vmsize)
       IN IF a.ok
            THEN /\ orollup' = a.rollup
                 /\ opc' = "build"
            ELSE /\ opc' = "error"
                 /\ UNCHANGED orollup
  /\ nrowops' = nrowops + 1
  /\ UNCHANGED <<obase, options_, output, orest>>

\* ScanAndRollup without base files: rollup.CreateRollupOutput(options, output)
RowsCreateRollupOutput ==
  /\ opc = "build"
  /\ \E m \in MaxRowsOptions, sort_by \in SortBys :
       LET opts == [max_rows_per_level |-> m, sort_by |-> sort_by]
           out == CreateDiffModeRollupOutput(orollup, NoBase, opts)
       IN /\ OptionsAccepted(opts)
          /\ options_' = opts
          /\ output' = out.row
          /\ opc' = IF out.ok THEN "done" ELSE "error"
  /\ UNCHANGED <<orollup, obase, nrowops, orest>>

\* ScanAndRollup with base files: rollup.Subtract(base), then
\* rollup.CreateDiffModeRollupOutput(&base, options, output)
RowsCreateDiffModeRollupOutput ==
  /\ opc = "build"
  /\ \E m \in MaxRowsOptions, sort_by \in SortBys, base \in BaseRollupsFor(orollup) :
       LET opts == [max_rows_per_level |-> m, sort_by |-> sort_by]
           diff == Subtract(orollup, base)
           out == CreateDiffModeRollupOutput(diff, BaseOf(base), opts)
       IN /\ OptionsAccepted(opts)
          /\ orollup' = diff
          /\ obase' = BaseOf(base)
          /\ options_' = opts
          /\ output' = out.row
          /\ opc' = IF out.ok THEN "done" ELSE "error"
  /\ UNCHANGED <<nrowops, orest>>

\* BloatyDoMain with options it does not accept: the error is thrown before
\* any file is added or scanned, and no output is made.
RowsOptionsRejected ==
  /\ opc = "build"
  /\ nrowops = 0
  /\ \E m \in MaxRowsOptions, sort_by \in SortBys :
       LET opts == [max_rows_per_level |-> m, sort_by |-> sort_by]
       IN /\ ~OptionsAccepted(opts)
          /\ options_' = opts
  /\ opc' = "rejected"
  /\ UNCHANGED <<orollup, obase, output, nrowops, orest>>

NextRows ==
  \/ RowsOptionsRejected
  \/ RowsAddSizes
  \/ RowsCreateRollupOutput
  \/ RowsCreateDiffModeRollupOutput

SpecRows == InitRows /\ [][NextRows]_vars

----------------------------------------------------------------------------
(* Properties of the output *)

\* Every row of the tree under (and including) |row|.
RECURSIVE AllRows(_)
AllRows(row) ==
  {row} \cup UNION {UNION {AllRows(l[k]) : k \in 1..Len(l)} :
                       l \in {row.sorted_children, row.shrinking, row.mixed}}

\* The row lists of the output: the three lists of every row.
OutputLists ==
  UNION {{row.sorted_children, row.shrinking, row.mixed} : row \in AllRows(output)}

\* The names and sizes of a list of rows.
Shown(rows) == [k \in 1..Len(rows) |-> <<rows[k].name, rows[k].vmsize, rows[k].filesize>>]

\* The output of the example is made: five children with VM sizes 8, 7, 6, 5
\* and 4, max_rows_per_level 3, sorted by VM size, no base.
ExampleShown ==
  /\ opc = "done"
  /\ orollup = ExampleRollup
  /\ ~obase.present
  /\ options_ = [max_rows_per_level |-> 3, sort_by |-> "vm"]

\* C10 as stated: no level of the output has more than max_rows_per_level
\* rows, the "[Other]" row counted, and the example shows exactly three rows:
\* "[Other]" with the sum of the three smallest, and the two largest.
C10_RowsWithinMax ==
  opc = "done" =>
    /\ \A rows \in OutputLists : Len(rows) <= options_.max_rows_per_level
    /\ ExampleShown =>
         Shown(output.sorted_children) = <<<<"[Other]", 15, 0>>, <<"a", 8, 0>>, <<"b", 7, 0>>>>

\* C10, amended: every row list of the output has at most
\* max_rows_per_level rows besides the "[Other]" row, and at most one
\* "[Other]" row: max_rows_per_level + 1 rows at most; the example shows
\* four rows: "[Other]" with the sum of the two smallest, and the three
\* largest.
C10_RowsWithinMaxPlusOthers ==
  opc = "done" =>
    /\ \A rows \in OutputLists :
         /\ Cardinality({k \in 1..Len(rows) : rows[k].name # others_label})
              <= options_.max_rows_per_level
         /\ Cardinality({k \in 1..Len(rows) : rows[k].name = others_label}) <= 1
    /\ ExampleShown =>
         Shown(output.sorted_children) =
           <<<<"[Other]", 9, 0>>, <<"a", 8, 0>>, <<"b", 7, 0>>, <<"c", 6, 0>>>>

\* The example's output is made, and so is one with a collapsed second level.
C10_Witness ==
  /\ ExampleShown
  /\ Len(output.sorted_children) = 4

C10_WitnessNested ==
  /\ opc = "done"
  /\ \E k \in 1..Len(output.sorted_children) :
       \E j \in 1..Len(output.sorted_children[k].sorted_children) :
         output.sorted_children[k].sorted_children[j].name = others_label

C10_WitnessDiff ==
  /\ opc = "done"
  /\ obase.present
  /\ \E j \in 1..Len(output.shrinking) : output.shrinking[j].name = others_label
  /\ output.mixed # <<>>

RowsError == opc = "error"

----------------------------------------------------------------------------
(* Properties of the "[Other]" rows *)

ListNames == {"sorted_children", "shrinking", "mixed"}

ListOf(row, list) ==
  CASE list = "sorted_children" -> row.sorted_children
    [] list = "shrinking"       -> row.shrinking
    [] list = "mixed"           -> row.mixed

RowNamesOf(rows) == {rows[k].name : k \in 1..Len(rows)}

\* The rows of |all| that are not among |shown|: their vmsize, filesize and
\* the totals of their children of the base, summed.
RemovedSums(all, shown, base) ==
  LET Gone(j) == all[j].name \notin RowNamesOf(shown)
      InBase(j) == base.present /\ all[j].name \in ChildNames(base.rollup)
  IN [n |-> Cardinality({j \in 1..Len(all) : Gone(j)}),
      vmsize |-> SumSeq([j \in 1..Len(all) |-> IF Gone(j) THEN all[j].vmsize ELSE 0]),
      filesize |-> SumSeq([j \in 1..Len(all) |-> IF Gone(j) THEN all[j].filesize ELSE 0]),
      base_vm |-> SumSeq([j \in 1..Len(all) |->
                    IF Gone(j) /\ InBase(j) THEN base.rollup[<<all[j].name>>].vm_total ELSE 0]),
      base_file |-> SumSeq([j \in 1..Len(all) |->
                      IF Gone(j) /\ InBase(j) THEN base.rollup[<<all[j].name>>].file_total ELSE 0])]

\* The base Rollup CreateRows gets for the child |name|.
ChildBase(base, name) ==
  IF ~base.present THEN NoBase
  ELSE IF name \in ChildNames(base.rollup) THEN BaseOf(ChildRollup(base.rollup, name))
  ELSE BaseOf(EmptyRollup)

\* Every "[Other]" row under |row|, the row of the Rollup r with the base
\* Rollup |base|, holds the sums of the rows its list lost, and in diff mode
\* its percentages are taken of the sums of their base totals.
RECURSIVE OthersAreSums(_, _, _)
OthersAreSums(r, base, row) ==
  \A list \in ListNames :
    \A shown \in {ListOf(row, list)}, all \in {ChildRows(r, list)} :
      \A k \in 1..Len(shown) :
        IF shown[k].name = others_label
          THEN \A gone \in {RemovedSums(all, shown, base)} :
                 /\ gone.n >= 1
                 /\ shown[k].vmsize = gone.vmsize
                 /\ shown[k].filesize = gone.filesize
                 /\ base.present =>
                      /\ shown[k].vmpercent = Percent(gone.vmsize, gone.base_vm)
                      /\ shown[k].filepercent = Percent(gone.filesize, gone.base_file)
          ELSE \A cr \in {ChildRollup(r, shown[k].name)}, cb \in {ChildBase(base, shown[k].name)} :
                 OthersAreSums(cr, cb, shown[k])

\* C11: whenever an output is made, every "[Other]" row of every list has
\* the summed vmsize and the summed filesize of exactly the rows the row
\* limit removed from that list, and in diff mode the base it is compared
\* with is the sum of the base totals of those rows.
C11_OthersAreSums ==
  opc = "done" => OthersAreSums(orollup, obase, output)

\* A diff-mode output whose shrinking list lost two rows with base totals.
C11_Witness ==
  /\ opc = "done"
  /\ obase.present
  /\ \E k \in 1..Len(output.shrinking) :
       /\ output.shrinking[k].name = others_label
       /\ output.shrinking[k].vmpercent.whole > 0
       /\ RemovedSums(ChildRows(orollup, "shrinking"), output.shrinking, obase).n >= 2

----------------------------------------------------------------------------
(* Sums of child rows *)

\* The child rows of |row| sum to its vmsize and to its filesize.
ChildRowsSumTo(row) ==
  /\ SumSeq([k \in 1..Len(row.sorted_children) |-> row.sorted_children[k].vmsize]) = row.vmsize
  /\ SumSeq([k \in 1..Len(row.sorted_children) |-> row.sorted_children[k].filesize])
       = row.filesize

\* The node of a row has children to show: some child has a total that is
\* not 0 (the "[Other]" row stands for no node).
HasChildren(r) == \E n \in ChildNames(r) : r[<<n>>].vm_total # 0 \/ r[<<n>>].file_total # 0

\* The child rows sum to the row's sizes at |row|, the row of the Rollup r,
\* and at every row below it: wherever the node has children (of_node), or
\* wherever the row has child rows.
RECURSIVE SumsHold(_, _, _)
SumsHold(r, row, of_node) ==
  /\ (IF of_node THEN HasChildren(r) ELSE row.sorted_children # <<>>) => ChildRowsSumTo(row)
  /\ \A k \in 1..Len(row.sorted_children) :
       row.sorted_children[k].name # others_label =>
         \A cr \in {ChildRollup(r, row.sorted_children[k].name)} :
           SumsHold(cr, row.sorted_children[k], of_node)

\* The only child row of the node was pruned by ComputeRows.
RECURSIVE PrunedOrShown(_, _, _)
PrunedOrShown(r, row, is_toplevel) ==
  \A all \in {ChildRows(r, "sorted_children")} :
    /\ row.sorted_children = <<>> =>
         \/ all = <<>>
         \/ Len(all) = 1 /\ all[1].name = row.name
         \/ Len(all) = 1 /\ ~is_toplevel /\ all[1].name \in {"[None]", "[Unmapped]"}
    /\ \A k \in 1..Len(row.sorted_children) :
         row.sorted_children[k].name # others_label =>
           \A cr \in {ChildRollup(r, row.sorted_children[k].name)} :
             PrunedOrShown(cr, row.sorted_children[k], FALSE)

\* C12 as stated: in an output made without a base, at every node (the root
\* and every nested row) that has children, the vmsize of the child rows,
\* "[Other]" included, sums to the node's vmsize and their filesize to its
\* filesize.
C12_ChildRowsSumToNode ==
  (opc = "done" /\ ~obase.present) => SumsHold(orollup, output, TRUE)

\* C12, amended: in an output made without a base, at every row that has
\* child rows their vmsize sums to the row's vmsize and their filesize to its
\* filesize; a row has no child rows only when its node has no child with a
\* total other than 0, or its only such child was pruned (it has the row's
\* name, or is "[None]" or "[Unmapped]" below the root).
C12_ShownChildRowsSumToRow ==
  (opc = "done" /\ ~obase.present) =>
    /\ SumsHold(orollup, output, FALSE)
    /\ PrunedOrShown(orollup, output, TRUE)

\* An output whose root shows "[Other]" and a row with child rows of its own,
\* and one of whose rows lost its only child.
C12_Witness ==
  /\ opc = "done"
  /\ ~obase.present
  /\ \E k \in 1..Len(output.sorted_children) : output.sorted_children[k].name = others_label
  /\ \E k \in 1..Len(output.sorted_children) :
       Len(output.sorted_children[k].sorted_children) >= 2
  /\ \E k \in 1..Len(output.sorted_children) :
       /\ output.sorted_children[k].name = "[None]"
       /\ output.sorted_children[k].sorted_children = <<>>
       /\ <<"[None]", "[None]">> \in DOMAIN orollup

----------------------------------------------------------------------------
(* The three lists *)

\* The sign of a size.
Sgn(x) == CASE x < 0 -> -1 [] x = 0 -> 0 [] x > 0 -> 1

\* The list a child with the totals vm and file belongs to.
ListFor(vm, file) ==
  IF Sgn(vm) + Sgn(file) < 0 THEN "shrinking"
  ELSE IF Sgn(vm) + Sgn(file) = 0 /\ Sgn(vm) # Sgn(file) THEN "mixed"
  ELSE "sorted_children"

\* The lists in which CreateRows puts a row for the child n of r.
ListsWith(r, n) == {list \in ListNames : n \in RowNamesOf(ChildRows(r, list))}

\* The rows of the three lists of a made output that stand for a child.
ShownIn(list) ==
  {ListOf(output, list)[k] : k \in {j \in 1..Len(ListOf(output, list)) :
                                     ListOf(output, list)[j].name # others_label}}

\* C13: when an output is made, CreateRows has put every child of the root
\* with a vm or file total other than 0 into exactly one list, the one its
\* signs ask for, and a child with both totals 0 into none; every row shown
\* for a child is in that list with the child's sizes; (+10,-10) is mixed,
\* (-5,-5) is shrinking and (+5,+5) is children.
C13_OneListBySigns ==
  opc = "done" =>
    /\ \A n \in ChildNames(orollup) :
         LET node == orollup[<<n>>]
         IN IF node.vm_total # 0 \/ node.file_total # 0
              THEN ListsWith(orollup, n) = {ListFor(node.vm_total, node.file_total)}
              ELSE ListsWith(orollup, n) = {}
    /\ \A list \in ListNames : \A row \in ShownIn(list) :
         /\ row.name \in ChildNames(orollup)
         /\ row.vmsize = orollup[<<row.name>>].vm_total
         /\ row.filesize = orollup[<<row.name>>].file_total
         /\ list = ListFor(row.vmsize, row.filesize)
    /\ RowList(Totals(10, -10)) = "mixed"
    /\ RowList(Totals(-5, -5)) = "shrinking"
    /\ RowList(Totals(5, 5)) = "sorted_children"

\* A diff-mode output with a row in each list, and a child with both totals
\* 0 that has no row.
C13_Witness ==
  /\ opc = "done"
  /\ obase.present
  /\ \A list \in ListNames : ShownIn(list) # {}
  /\ \E n \in ChildNames(orollup) :
       /\ orollup[<<n>>] = Totals(0, 0)
       /\ \A list \in ListNames : n \notin RowNamesOf(ListOf(output, list))

----------------------------------------------------------------------------
(* Diff mode: new, deleted and unchanged rows *)

\* The VM total of the child n of the base, 0 when the base has none.
BaseVm(base, n) ==
  IF n \in ChildNames(base.rollup) THEN base.rollup[<<n>>].vm_total ELSE 0

\* Every row shown for a child under |row|, the row of the Rollup r (the
\* difference) with the base Rollup |base|, has the difference as vmsize and
\* renders a new label as [NEW], a deleted one as [DEL] and a difference of
\* 0 as [ = ].
RECURSIVE DiffRowsRender(_, _, _)
DiffRowsRender(r, base, row) ==
  \A list \in ListNames : \A shown \in {ListOf(row, list)} : \A k \in 1..Len(shown) :
    shown[k].name # others_label =>
      LET n == shown[k].name
          b == BaseVm(base, n)
          current == r[<<n>>].vm_total + b
          rendered == PercentString(shown[k].vmpercent, shown[k].diff_mode)
      IN /\ (n \notin ChildNames(base.rollup) /\ current > 0) =>
              shown[k].vmsize = current /\ rendered = " [NEW]"
         /\ (b > 0 /\ current = 0) =>
              shown[k].vmsize = -b /\ rendered = " [DEL]"
         /\ shown[k].vmsize = 0 => rendered = " [ = ]"
         /\ \A cr \in {ChildRollup(r, n)}, cb \in {ChildBase(base, n)} :
              DiffRowsRender(cr, cb, shown[k])

\* C14: in a diff-mode output, the row of a label the base lacks and the
\* current Rollup has with vm = v > 0 has vmsize +v and renders [NEW]; the
\* row of a label the base has with vm = b > 0 and the current Rollup lacks
\* has vmsize -b and renders [DEL]; a row with vmsize 0 renders [ = ]; and
\* every child of the root with a total other than 0 has such a row, unless
\* its list holds more children than max_rows_per_level or it is the only
\* one of its list and has the name of the root row.
C14_NewDelSame ==
  (opc = "done" /\ obase.present) =>
    /\ DiffRowsRender(orollup, obase, output)
    /\ \A list \in ListNames : \A all \in {ChildRows(orollup, list)} :
         \/ Len(all) > options_.max_rows_per_level
         \/ Len(all) = 1 /\ all[1].name = output.name
         \/ RowNamesOf(all) = RowNamesOf(ListOf(output, list))

\* A diff-mode output that shows a new, a deleted and an unchanged row.
C14_Witness ==
  /\ opc = "done"
  /\ obase.present
  /\ \E list \in ListNames : \E k \in 1..Len(ListOf(output, list)) :
       LET row == ListOf(output, list)[k]
       IN /\ row.name \notin ChildNames(obase.rollup) \cup {others_label}
          /\ row.vmsize > 0
          /\ PercentString(row.vmpercent, row.diff_mode) = " [NEW]"
  /\ \E list \in ListNames : \E k \in 1..Len(ListOf(output, list)) :
       LET row == ListOf(output, list)[k]
       IN /\ row.name \in ChildNames(obase.rollup)
          /\ row.vmsize = -BaseVm(obase, row.name)
          /\ PercentString(row.vmpercent, row.diff_mode) = " [DEL]"
  /\ \E list \in ListNames : \E k \in 1..Len(ListOf(output, list)) :
       LET row == ListOf(output, list)[k]
       IN /\ row.name # others_label
          /\ row.vmsize = 0
          /\ PercentString(row.vmpercent, row.diff_mode) = " [ = ]"

----------------------------------------------------------------------------
(* The path of AddSizes *)

\* The root and the nodes on the path of labels below it.
PathNodes(labels) == {SubSeq(labels, 1, k) : k \in 0..Len(labels)}

\* The step is an AddSizes call on A that returned, and it has added its
\* size, in its domain, to exactly the root and the nodes on the path
\* |labels(names)| of its names, creating the missing ones.
AddedAlong(Labels(_)) ==
  (rpc' \in {"B", "C"} /\ Len(rcalls') = Len(rcalls) + 1) =>
    LET c == rcalls'[Len(rcalls')]
        nodes == PathNodes(Labels(c.names))
        Added(p) == IF p \in nodes THEN c.size ELSE 0
    IN /\ DOMAIN ra' = DOMAIN ra \cup nodes
       /\ \A p \in DOMAIN ra' :
            /\ ra'[p].vm_total = NodeAt(ra, p).vm_total + (IF c.is_vmsize THEN Added(p) ELSE 0)
            /\ ra'[p].file_total = NodeAt(ra, p).file_total + (IF c.is_vmsize THEN 0 ELSE Added(p))

\* The whole vector of names, and the names after names[0].
AllNames(names) == names

AfterBase(names) == Tail(names)

\* C15 as stated: every AddSizes call that returns has added its size to the
\* root and to every node on the path labels[0], labels[1], ..., creating
\* the missing ones: the root has a child keyed by labels[0] and the path is
\* as deep as labels is long.
C15_AddsAlongLabels == [][AddedAlong(AllNames)]_vars

\* C15, amended: every AddSizes call that returns has added its size to the
\* root and to every node on the path labels[1], labels[2], ..., creating
\* the missing ones, and to no other node: labels[0], the label of the base
\* map, is skipped, the root has a child keyed by labels[1] and the path is
\* one less deep than labels is long.
C15_AddsAlongLabelsAfterBase == [][AddedAlong(AfterBase)]_vars

\* A call with three names has returned: its path has two nodes below the
\* root, and the root has no child of the first name.
C15_Witness ==
  /\ rpc \in {"B", "C"}
  /\ rcalls # <<>>
  /\ rcalls[Len(rcalls)].names = <<"b", "x", "y">>
  /\ <<"x", "y">> \in DOMAIN ra
  /\ <<"b">> \notin DOMAIN ra

----------------------------------------------------------------------------
(* The sink specification: the file handler feeds the base sink (no        *)
(* translator, output: the base DualMap), then the sink of a data source   *)
(* (translator: the base DualMap).                                         *)

\* file.data().size() of the file the sinks are fed from.
SinkFileSize == 3

SinkLabel == ScanLabels[(sink_ops % 2) + 1]

SinkCall(op_, translator_, vmaddr_, vmsize_, fileoff_, filesize_) ==
  [op |-> op_, translator |-> translator_, vmaddr |-> vmaddr_, vmsize |-> vmsize_,
   fileoff |-> fileoff_, filesize |-> filesize_, label |-> SinkLabel]

InitSink ==
  RangeMapIdle /\ JoinIdle /\ ScanIdle /\ RollupIdle /\ RowsIdle /\ SinkIdle /\ MungeIdle /\ DefineIdle

\* sink->AddRange(name, vmaddr, vmsize, fileoff, filesize) on the base sink
BaseSinkAddRange ==
  /\ sink_pc = "base"
  /\ sink_ops < MaxSinkOps
  /\ \E r \in ScanRanges :
       /\ r.fileoff + r.filesize <= SinkFileSize
       /\ sink_base' = SinkAddRange(sink_base, SinkLabel, r.vmaddr, r.vmsize,
                                    r.fileoff, r.filesize)
       /\ sink_call' = SinkCall("AddRange", FALSE, r.vmaddr, r.vmsize, r.fileoff, r.filesize)
  /\ sink_ops' = sink_ops + 1
  /\ UNCHANGED <<sink_out, sink_pc, krest>>

\* sink->AddFileRange(name, fileoff, filesize) on the base sink
\* (MaybeAddFileRange in OnElfFile)
BaseSinkAddFileRange ==
  /\ sink_pc = "base"
  /\ sink_ops < MaxSinkOps
  /\ \E r \in ScanFileRanges :
       /\ r.fileoff + r.filesize <= SinkFileSize
       /\ sink_base' = SinkAddFileRange(sink_base, FALSE, EmptyDualMap, SinkLabel,
                                        r.fileoff, r.filesize)
       /\ sink_call' = SinkCall("AddFileRange", FALSE, 0, 0, r.fileoff, r.filesize)
  /\ sink_ops' = sink_ops + 1
  /\ UNCHANGED <<sink_out, sink_pc, krest>>

\* ProcessBaseMap returns; ScanAndRollupFile fills the base file map and
\* makes the sink of the data source.
SinkSources ==
  /\ sink_pc = "base"
  /\ sink_base' = FillBase(sink_base, SinkFileSize)
  /\ sink_pc' = "sources"
  /\ UNCHANGED <<sink_out, sink_call, sink_ops, krest>>

\* sink->AddFileRange(name, fileoff, filesize) on the sink of the data source
SourceSinkAddFileRange ==
  /\ sink_pc = "sources"
  /\ sink_ops < MaxSinkOps
  /\ \E r \in ScanFileRanges :
       /\ r.fileoff + r.filesize <= SinkFileSize
       /\ sink_out' = SinkAddFileRange(sink_out, TRUE, sink_base, SinkLabel,
                                       r.fileoff, r.filesize)
       /\ sink_call' = SinkCall("AddFileRange", TRUE, 0, 0, r.fileoff, r.filesize)
  /\ sink_ops' = sink_ops + 1
  /\ UNCHANGED <<sink_base, sink_pc, krest>>

\* sink->AddVMRange(vmaddr, vmsize, name) on the sink of the data source
SourceSinkAddVMRange ==
  /\ sink_pc = "sources"
  /\ sink_ops < MaxSinkOps
  /\ \E r \in ScanVMRanges :
       /\ sink_out' = SinkAddVMRange(sink_out, sink_base, SinkLabel, r.vmaddr, r.vmsize)
       /\ sink_call' = SinkCall("AddVMRange", TRUE, r.vmaddr, r.vmsize, 0, 0)
  /\ sink_ops' = sink_ops + 1
  /\ UNCHANGED <<sink_base, sink_pc, krest>>

NextSink ==
  \/ BaseSinkAddRange
  \/ BaseSinkAddFileRange
  \/ SinkSources
  \/ SourceSinkAddFileRange
  \/ SourceSinkAddVMRange

SpecSink == InitSink /\ [][NextSink]_vars

----------------------------------------------------------------------------
(* Properties of the sinks *)

\* The addresses of [addr, addr + size).
RangeAddrs(addr, size) == {a \in Word : a >= addr /\ a < addr + size}

\* The step is a RangeSink::AddFileRange call, on a sink with a translator
\* or not as |with_translator| says.
IsAddFileRange(with_translator) ==
  /\ sink_ops' = sink_ops + 1
  /\ sink_call'.op = "AddFileRange"
  /\ sink_call'.translator = with_translator

\* After the call the File map |after| covers the range of the call, with
\* the call's label wherever |before| did not cover it.
FileRangeAdded(before, after) ==
  \A a \in RangeAddrs(sink_call'.fileoff, sink_call'.filesize) :
    /\ Covered(after, a)
    /\ ~Covered(before, a) => LabelAt(after, a) = sink_call'.label

\* After the call the VM map |after| covers, with the call's label, every
\* address that the translator's File map translates an offset of the range
\* to and that |before| did not cover.
FileRangeProjected(before, after) ==
  \A a \in RangeAddrs(sink_call'.fileoff, sink_call'.filesize) :
    LET t == Translate(sink_base.file_map, a)
    IN (t.ok /\ ~Covered(before, t.value)) =>
         Covered(after, t.value) /\ LabelAt(after, t.value) = sink_call'.label

\* C16: every AddFileRange call adds its label over its range to the File
\* map of the sink's output, whether the sink has a translator (the output
\* is the data source's DualMap) or not (the output is the base DualMap),
\* and with a translator it also projects the range into the output's VM
\* map through the translator's File map.
C16_AddFileRangeAdds ==
  [][ /\ IsAddFileRange(FALSE) => FileRangeAdded(sink_base.file_map, sink_base'.file_map)
      /\ IsAddFileRange(TRUE) =>
           /\ FileRangeAdded(sink_out.file_map, sink_out'.file_map)
           /\ FileRangeProjected(sink_out.vm_map, sink_out'.vm_map) ]_vars

\* What holds of C16: the calls on a sink with a translator.
C16_AddFileRangeAddsWithTranslator ==
  [][ IsAddFileRange(TRUE) =>
        /\ FileRangeAdded(sink_out.file_map, sink_out'.file_map)
        /\ FileRangeProjected(sink_out.vm_map, sink_out'.vm_map) ]_vars

----------------------------------------------------------------------------
(* Checked arithmetic *)

SignedWord == INT64_MIN..INT64_MAX

\* Every total of the Rollup and every size of the output is a signed word.
TotalsInRange ==
  /\ \A p \in DOMAIN orollup :
       orollup[p].vm_total \in SignedWord /\ orollup[p].file_total \in SignedWord
  /\ \A row \in AllRows(output) : row.vmsize \in SignedWord /\ row.filesize \in SignedWord

\* The Rollup r with |size| added, as a number, along the path of |names|.
SumAlong(r, names, size, is_vmsize) ==
  LET nodes == PathNodes(Tail(names))
      Plus(p) == IF p \in nodes THEN size ELSE 0
  IN [p \in DOMAIN r \cup nodes |->
        [vm_total |-> NodeAt(r, p).vm_total + (IF is_vmsize THEN Plus(p) ELSE 0),
         file_total |-> NodeAt(r, p).file_total + (IF is_vmsize THEN 0 ELSE Plus(p))]]

\* The sum takes some total out of the signed word.
Overflows(r, names, size, is_vmsize) ==
  \E p \in PathNodes(Tail(names)) :
    (IF is_vmsize THEN NodeAt(r, p).vm_total ELSE NodeAt(r, p).file_total) + size
      \notin SignedWord

\* C17: every total of the Rollup and every size of the output, the sums of
\* the "[Other]" rows included, stays a signed word; an AddSizes call
\* returns exactly when its size takes no total on its path out of the
\* signed word, with the true sums, and raises the error otherwise, leaving
\* the totals in range.
C17_ArithmeticChecked ==
  [][ /\ TotalsInRange'
      /\ nrowops' = nrowops + 1 =>
           \E names \in RowNames(orollup), size \in RowSizes, is_vmsize \in BOOLEAN :
             IF Overflows(orollup, names, size, is_vmsize)
               THEN opc' = "error"
               ELSE opc' = "build" /\ orollup' = SumAlong(orollup, names, size, is_vmsize) ]_vars

\* An AddSizes call has raised the error on a Rollup whose VM total was
\* near INT64_MAX.
C17_Witness ==
  /\ opc = "error"
  /\ nrowops >= 1
  /\ orollup[<<>>].vm_total + 4 > INT64_MAX

----------------------------------------------------------------------------
(* Overflow in range math *)

\* The call's start + size leaves the word.
EndOverflows(c) == c.addr + c.size > UINT64_MAX

\* Some address of the call's range has a translation that leaves the word:
\* a - start + other_start for add_dual, the translator's entry for
\* add_with_translation.
TranslationOverflows(c) ==
  \/ /\ c.op = "add_dual"
     /\ c.other # UINT64_MAX
     /\ \E a \in CallAddrs(c) : a - c.addr + c.other > UINT64_MAX
  \/ /\ c.op = "add_with_translation"
     /\ \E a \in CallAddrs(c) :
          LET it == FindContaining(tmap, a)
          IN /\ it # END
             /\ HasTranslation(tmap[it])
             /\ a - it + tmap[it].other_start > UINT64_MAX

\* C18: add, add_dual and add_with_translation never return normally from a
\* call whose start + size leaves the unsigned word or whose range has a
\* translated address a - start + other_start that leaves it: such a call
\* raises an arithmetic-overflow error instead.
C18_RangeOverflowFatal ==
  [][ \A op \in {"add", "add_dual", "add_with_translation"} :
        Returns(op) => ~EndOverflows(call) /\ ~TranslationOverflows(call) ]_vars

----------------------------------------------------------------------------
(* max_rows_per_level = 0 *)

\* Every child of the Rollup r with a total other than 0 has a row in the
\* list its signs ask for, at |row| and below, and no list has an "[Other]"
\* row.
RECURSIVE KeepsEveryRow(_, _)
KeepsEveryRow(r, row) ==
  /\ \A list \in ListNames :
       RowNamesOf(ListOf(row, list)) = RowNamesOf(ChildRows(r, list)) \ {others_label}
  /\ \A k \in 1..Len(row.sorted_children) :
       \A cr \in {ChildRollup(r, row.sorted_children[k].name)} :
         HasChildren(cr) => KeepsEveryRow(cr, row.sorted_children[k])

----------------------------------------------------------------------------
(* NameMunger.  A name is a sequence of characters.  A regex of regexes_   *)
(* is the pair of a pattern and a replacement; the patterns here are       *)
(* literals, with or without one capturing group around the literal, and a *)
(* replacement is a sequence of characters and of the references \0 and \1.*)

MungeNames ==
  {<<>>, <<"a">>, <<"b">>, <<"c">>, <<"a", "b">>, <<"b", "a">>, <<"[">>, <<"[", "a">>}

MungeRegexes ==
  { [pattern |-> <<"a">>, ngroups |-> 0, rewrite |-> <<"b">>],
    [pattern |-> <<"b">>, ngroups |-> 0, rewrite |-> <<"c">>],
    [pattern |-> <<"a">>, ngroups |-> 1, rewrite |-> <<"\\1", "\\1">>],
    [pattern |-> <<"a">>, ngroups |-> 0, rewrite |-> <<"\\1">>] }

\* re.Match(text, 0, text.size(), UNANCHORED, ...): the pattern matches
\* somewhere in the text.
Match(text, re) ==
  \E i \in 1..(Len(text) - Len(re.pattern) + 1) :
    SubSeq(text, i, i + Len(re.pattern) - 1) = re.pattern

\* MaxSubmatch(rewrite): the highest group the replacement refers to.
MaxSubmatch(rewrite) ==
  IF \E k \in 1..Len(rewrite) : rewrite[k] = "\\1" THEN 1 ELSE 0

\* re.Rewrite(out, rewrite, vec, nvec): the replacement with \0 replaced by
\* the match and \1 by the group.
RECURSIVE Rewrite(_, _)
Rewrite(re, rewrite) ==
  IF rewrite = <<>> THEN <<>>
  ELSE (IF Head(rewrite) \in {"\\0", "\\1"} THEN re.pattern ELSE <<Head(rewrite)>>)
         \o Rewrite(re, Tail(rewrite))

\* RE2::Extract(text, re, rewrite, &out): true iff a match occurred and the
\* extraction happened successfully; out is left alone when it returns false
\* for lack of a match or of a group.
Extract(text, re, out) ==
  IF MaxSubmatch(re.rewrite) > re.ngroups \/ ~Match(text, re)
    THEN [ok |-> FALSE, out |-> out]
    ELSE [ok |-> TRUE, out |-> Rewrite(re, re.rewrite)]

\* A faulty Munge that goes on to the later regexes with what it extracted.
RECURSIVE MungeChain(_, _)
MungeChain(regexes, name) ==
  IF name # <<>> /\ name[1] = "[" THEN name
  ELSE IF regexes = <<>> THEN name
  ELSE LET e == Extract(name, Head(regexes), <<>>)
       IN MungeChain(Tail(regexes), IF e.ok THEN e.out ELSE name)

\* The for loop of Munge over regexes_ from the k-th pair on.
RECURSIVE MungeLoop(_, _, _)
MungeLoop(regexes, name, k) ==
  IF k > Len(regexes) THEN name
  ELSE LET e == Extract(name, regexes[k], <<>>)
       IN IF e.ok THEN e.out ELSE MungeLoop(regexes, name, k + 1)

\* NameMunger::Munge(name)
Munge(regexes, name) ==
  IF name # <<>> /\ name[1] = "[" THEN name ELSE MungeLoop(regexes, name, 1)

InitMunge ==
  /\ RangeMapIdle
  /\ JoinIdle
  /\ ScanIdle
  /\ RollupIdle
  /\ RowsIdle
  /\ SinkIdle
  /\ MungeIdle
  /\ DefineIdle

\* NameMunger::AddRegex(regex, replacement), while the data source is defined
AddRegex ==
  /\ munge_pc = "config"
  /\ Len(regexes_) < MaxRegexes
  /\ \E re \in MungeRegexes : regexes_' = Append(regexes_, re)
  /\ UNCHANGED <<munge_name, munge_ret, munge_pc, mrest>>

\* NameMunger::Munge(name), from a RangeSink during the scan
MungeName ==
  /\ \E name \in MungeNames :
       /\ munge_name' = name
       /\ munge_ret' = Munge(regexes_, name)
  /\ munge_pc' = "munged"
  /\ UNCHANGED <<regexes_, mrest>>

NextMunge ==
  \/ AddRegex
  \/ MungeName

SpecMunge == InitMunge /\ [][NextMunge]_vars

\* The regexes of regexes_ whose pattern matches the name and whose
\* replacement can be made from the match.
Applicable(name) ==
  {k \in 1..Len(regexes_) :
     Match(name, regexes_[k]) /\ MaxSubmatch(regexes_[k].rewrite) <= regexes_[k].ngroups}

\* The substitution of the k-th regex for the name it matches.
Substitution(k) == Rewrite(regexes_[k], regexes_[k].rewrite)

----------------------------------------------------------------------------
(* Determinism of the output *)

\* The rows in the order |order| of a visit.
Visited(rows, order) == [k \in 1..Len(rows) |-> rows[order[k]]]

\* Visiting orders of n children: every rotation of the order by name and of
\* its reverse, so that any two children come in both relative orders.
VisitOrders(n) ==
  {[k \in 1..n |-> ((k + d - 1) % n) + 1] : d \in 0..(n - 1)}
    \cup {[k \in 1..n |-> n - ((k + d - 1) % n)] : d \in 0..(n - 1)}

\* The calls AddSizes can get while the Rollup r is built.
RowCalls(r) ==
  {[names |-> names, size |-> size, is_vmsize |-> is_vmsize] :
     names \in RowNames(r), size \in RowSizes, is_vmsize \in BOOLEAN}

\* Whatever order children_ is visited in, the two sorts of ComputeRows give
\* the same rows in the same order, at |row|, the row of the Rollup r, and at
\* every row below it.
RECURSIVE VisitOrderIrrelevant(_, _)
VisitOrderIrrelevant(r, row) ==
  /\ \A list \in ListNames :
       /\ \A rows \in {ChildRows(r, list)} :
            \A sorted \in {SortRows(rows, TRUE, options_.sort_by)} :
              \A order \in VisitOrders(Len(rows)) :
                SortRows(Visited(rows, order), TRUE, options_.sort_by) = sorted
       /\ \A rows \in {ListOf(row, list)} : \A order \in VisitOrders(Len(rows)) :
            SortRows(Visited(rows, order), FALSE, options_.sort_by) = rows
  /\ \A k \in 1..Len(row.sorted_children) :
       row.sorted_children[k].name # others_label =>
         \A cr \in {ChildRollup(r, row.sorted_children[k].name)} :
           VisitOrderIrrelevant(cr, row.sorted_children[k])

\* C21: the output does not depend on the order of the scan or of the visit
\* of a node's children: two AddSizes calls in either order end in the same
\* Rollup (or both in the overflow error), and in an output that is made,
\* every list at every level holds the rows that any visiting order of the
\* node's children gives, in the same order.
C21_OutputDeterministic ==
  /\ opc = "build" =>
       \A c1 \in RowCalls(orollup), c2 \in RowCalls(orollup) :
         \A one \in {ApplyCalls(orollup, <<c1, c2>>, <<1, 2>>, 1)},
            other \in {ApplyCalls(orollup, <<c1, c2>>, <<2, 1>>, 1)} :
           /\ one.ok = other.ok
           /\ one.ok => one.rollup = other.rollup
  /\ opc = "done" => VisitOrderIrrelevant(orollup, output)

\* An output with an "[Other]" row was made of a node with two children of
\* the same rank value, which only their names put in order.
C21_Witness ==
  /\ opc = "done"
  /\ nrowops >= 1
  /\ Len(output.sorted_children) >= 3
  /\ \E j, k \in 1..Len(output.sorted_children) :
       /\ j < k
       /\ ValToRank(output.sorted_children[j], options_.sort_by)
            = ValToRank(output.sorted_children[k], options_.sort_by)
  /\ \E k \in 1..Len(output.sorted_children) :
       output.sorted_children[k].name = others_label

----------------------------------------------------------------------------
(* Custom data sources: BloatyDoMain defines them, selects the sources and *)
(* starts the scan.                                                        *)

CustomNames == {"c1", "c2"}

\* The rewrite rules of a custom data source, possibly none.
DefineRewrites ==
  {<<>>,
   <<[pattern |-> <<"a">>, ngroups |-> 0, rewrite |-> <<"b">>]>>,
   <<[pattern |-> <<"a">>, ngroups |-> 0, rewrite |-> <<"b">>],
     [pattern |-> <<"b">>, ngroups |-> 0, rewrite |-> <<"c">>]>>}

DefineBases == BuiltInSources \cup CustomNames \cup {"nosuch"}

\* NameMunger::IsEmpty()
IsEmpty(munger) == munger = <<>>

\* Bloaty::DefineCustomDataSource(source) on all_known_sources_: the map with
\* the new source, or the error thrown.
DefineCustomDataSource(known, source) ==
  IF source.base_data_source \notin DOMAIN known
    THEN [ok |-> FALSE, known |-> known]
  ELSE IF ~IsEmpty(known[source.base_data_source].munger)
    THEN [ok |-> FALSE, known |-> known]
  ELSE [ok |-> TRUE,
        known |-> [n \in DOMAIN known \cup {source.name} |->
                     IF n = source.name
                       THEN [definition |-> known[source.base_data_source].definition,
                             munger |-> source.rewrite]
                       ELSE known[n]]]

InitDefine ==
  /\ RangeMapIdle
  /\ JoinIdle
  /\ ScanIdle
  /\ RollupIdle
  /\ RowsIdle
  /\ SinkIdle
  /\ MungeIdle
  /\ DefineIdle

\* BloatyDoMain: bloaty.DefineCustomDataSource(custom_data_source)
DefineCustom ==
  /\ def_pc = "config"
  /\ def_sources = <<>>
  /\ \E name \in CustomNames, base \in DefineBases, rewrite \in DefineRewrites :
       LET source == [name |-> name, base_data_source |-> base, rewrite |-> rewrite]
           d == DefineCustomDataSource(all_known_sources_, source)
       IN /\ def_call' = source
          /\ all_known_sources_' = d.known
          /\ def_pc' = IF d.ok THEN "config" ELSE "error"
  /\ UNCHANGED <<def_sources, drest>>

\* BloatyDoMain: bloaty.AddDataSource(data_source), after the custom sources
DefineAddDataSource ==
  /\ def_pc = "config"
  /\ Len(def_sources) < MaxSources
  /\ \E name \in DefineBases :
       IF name \in DOMAIN all_known_sources_
         THEN /\ def_sources' = Append(def_sources, name)
              /\ def_pc' = "config"
         ELSE /\ def_pc' = "error"
              /\ UNCHANGED def_sources
  /\ UNCHANGED <<all_known_sources_, def_call, drest>>

\* BloatyDoMain: bloaty.ScanAndRollup(options, output)
DefineScan ==
  /\ def_pc = "config"
  /\ def_pc' = "scan"
  /\ UNCHANGED <<all_known_sources_, def_sources, def_call, drest>>

NextDefine ==
  \/ DefineCustom
  \/ DefineAddDataSource
  \/ DefineScan

SpecDefine == InitDefine /\ [][NextDefine]_vars

\* The step is a DefineCustomDataSource call whose base is a custom source
\* defined earlier.
DefinesOnCustom ==
  /\ def_call' # def_call \/ all_known_sources_' # all_known_sources_ \/ def_pc' = "error"
  /\ def_sources' = def_sources
  /\ def_pc' # "scan"
  /\ def_call'.base_data_source \in CustomNames
  /\ def_call'.base_data_source \in DOMAIN all_known_sources_

\* C22: a DefineCustomDataSource call whose base_data_source is a custom data
\* source ends in the configuration error, whatever rewrite rules, possibly
\* none, that custom source has; and no scan starts after the error.
C22_CustomOnCustomRejected ==
  [][ /\ DefinesOnCustom => def_pc' = "error"
      /\ def_pc = "error" => def_pc' = "error" ]_vars

\* The part of C22 that the code keeps: the call is rejected when the custom
\* base has a rewrite rule, and nothing follows the error.
C22_CustomWithRulesRejected ==
  [][ /\ (DefinesOnCustom /\ all_known_sources_[def_call'.base_data_source].munger # <<>>)
           => def_pc' = "error"
      /\ def_pc = "error" => def_pc' = "error" ]_vars

----------------------------------------------------------------------------
(* The base map comes first *)

\* The step changes the base DualMap of the file being scanned.
BaseChanges == Len(maps_) >= 1 /\ Len(maps_') >= 1 /\ maps_'[1] # maps_[1]

\* The step inserts into the output DualMap of a data source.
OutputInserted ==
  \E i \in 2..Len(maps_) : i <= Len(maps_') /\ maps_'[i] # maps_[i]

\* C23: while a file is scanned, the base DualMap changes only in the base
\* pass and in the fill that ends it, when no output DualMap of a data source
\* exists yet; a step that inserts into an output leaves the base DualMap
\* alone, and so does every step after the sinks of the sources were made.
C23_BaseBeforeOutputs ==
  [][ /\ OutputInserted => ~BaseChanges /\ scanpc = "sources"
      /\ (BaseChanges /\ scanpc' # "base") => scanpc = "base" /\ Len(maps_) = 1
      /\ (BaseChanges /\ scanpc' = "base") => Len(maps_') = 1
      /\ scanpc = "sources" => ~BaseChanges \/ scanpc' = "base" ]_vars

\* Two sources have labelled ranges after a base pass that added a range.
C23_Witness ==
  /\ scanpc = "sources"
  /\ Len(maps_) = 3
  /\ maps_[1].vm_map # EmptyMap
  /\ maps_[2] # EmptyDualMap \/ maps_[3] # EmptyDualMap
  /\ nscanops = MaxScanOps

----------------------------------------------------------------------------
(* Termination of ComputeRollup *)

\* ComputeRollup was given maps that all hold an entry.
NonEmptyMaps == \A i \in 1..Len(jmaps) : DOMAIN jmaps[i] # {}

\* The place of an iterator in its map: end() comes after every entry.
IterPlace(it) == IF it = END THEN UINT64_MAX + 1 ELSE it

\* The largest end of an entry of the maps.
LargestEnd == SetMax(UNION {{jmaps[i][k].end : k \in DOMAIN jmaps[i]} : i \in 1..Len(jmaps)})

\* In an iteration of the loop no iterator moves back, current grows when
\* the loop goes on, and the loop ends with every iterator at end() and
\* current at the largest end of an entry.
LoopProgress ==
  /\ \A i \in 1..Len(jmaps) : IterPlace(jiters'[i]) >= IterPlace(jiters[i])
  /\ jpc' = "loop" => jcur' > jcur
  /\ jpc' = "done" =>
       /\ \A i \in 1..Len(jmaps) : jiters'[i] = END
       /\ jcur = LargestEnd

\* C24: on non-empty RangeMaps every iteration of ComputeRollup's loop lets
\* current grow strictly (so the loop terminates) and moves no iterator
\* back, and the loop ends exactly when every iterator is past its last
\* entry, after the interval that ends at the largest end of an entry.
C24_LoopTerminates ==
  [][ (jpc = "loop" /\ NonEmptyMaps) => LoopProgress ]_vars

\* The part of C24 that the code keeps: the same, for maps without an entry
\* that ends at UINT64_MAX.
C24_LoopTerminatesBelowMax ==
  [][ (jpc = "loop" /\ NonEmptyMaps /\ LargestEnd < UINT64_MAX) => LoopProgress ]_vars

----------------------------------------------------------------------------
(* Translation through the base DualMap *)

\* Translation between the two maps of a DualMap can be undone: what the VM
\* map translates to a file offset, the File map translates back, and the
\* other way round.
Invertible(dm) ==
  \A a \in Word :
    /\ Translate(dm.vm_map, a).ok =>
         Translate(dm.file_map, Translate(dm.vm_map, a).value) = [ok |-> TRUE, value |-> a]
    /\ Translate(dm.file_map, a).ok =>
         Translate(dm.vm_map, Translate(dm.file_map, a).value) = [ok |-> TRUE, value |-> a]

\* The step is a RangeSink::AddRange call on the base sink.
IsBaseAddRange == sink_ops' = sink_ops + 1 /\ sink_call'.op = "AddRange"

\* The part of the call's range that is in both domains overlaps nothing the
\* base DualMap holds.
OverlapsNothing ==
  LET common == Min2(sink_call'.vmsize, sink_call'.filesize)
  IN /\ \A a \in RangeAddrs(sink_call'.vmaddr, common) : ~Covered(sink_base.vm_map, a)
     /\ \A f \in RangeAddrs(sink_call'.fileoff, common) : ~Covered(sink_base.file_map, f)

----------------------------------------------------------------------------
(* Consistency of an output DualMap *)

\* For every VM address the translator maps to a file offset, the VM map of
\* |out| covers the address iff its File map covers the offset, and then
\* with the same label.
Consistent(out, translator) ==
  \A a \in Word :
    LET t == Translate(translator.vm_map, a)
    IN t.ok =>
         /\ Covered(out.vm_map, a) <=> Covered(out.file_map, t.value)
         /\ Covered(out.vm_map, a) => LabelAt(out.vm_map, a) = LabelAt(out.file_map, t.value)

\* C26: with a translator that is invertible on what it covers, the output
\* DualMap of a sink stays consistent through every sequence of AddVMRange
\* and AddFileRange calls.
C26_OutputConsistent ==
  (sink_pc = "sources" /\ Invertible(sink_base)) => Consistent(sink_out, sink_base)

\* Two calls on the sink of a data source have labelled, each with its own
\* label, VM addresses and the file offsets they translate to.
C26_Witness ==
  /\ sink_pc = "sources"
  /\ Invertible(sink_base)
  /\ sink_ops = MaxSinkOps
  /\ Cardinality({sink_out.vm_map[k].label : k \in DOMAIN sink_out.vm_map}) = 2
  /\ Cardinality({sink_out.file_map[k].label : k \in DOMAIN sink_out.file_map}) = 2
  /\ \E a \in Word :
       /\ Translate(sink_base.vm_map, a).ok
       /\ Covered(sink_out.vm_map, a)
       /\ Covered(sink_out.file_map, Translate(sink_base.vm_map, a).value)

----------------------------------------------------------------------------
(* Totals without Subtract *)

\* C27: as long as no base was subtracted, every node of the Rollup has a
\* vm_total and a file_total of 0 or more, and an output made of it has no
\* row in a shrinking or a mixed list at any level.
C27_NonNegativeWithoutSubtract ==
  ~obase.present =>
    /\ \A p \in DOMAIN orollup : orollup[p].vm_total >= 0 /\ orollup[p].file_total >= 0
    /\ opc = "done" =>
         \A row \in AllRows(output) :
           /\ row.shrinking = <<>>
           /\ row.mixed = <<>>
           /\ row.vmsize >= 0
           /\ row.filesize >= 0

\* An output with rows at two levels was made without a base after AddSizes
\* calls.
C27_Witness ==
  /\ opc = "done"
  /\ ~obase.present
  /\ nrowops = MaxRowOps
  /\ Len(output.sorted_children) >= 2
  /\ \E k \in 1..Len(output.sorted_children) : output.sorted_children[k].sorted_children # <<>>

----------------------------------------------------------------------------
(* What the row limit removes *)

\* The rows of |all| that the list |shown| lost, as indices.
Removed(all, shown) == {j \in 1..Len(all) : all[j].name \notin RowNamesOf(shown)}

\* In every list under |row|, the row of the Rollup r, that shows rows, no
\* lost row is named "[None]", and every row that is shown under another
\* name comes before every lost row in the order of rank: a greater
\* magnitude under sort_by, or the same and a smaller name.
RECURSIVE NoneIsKept(_, _)
NoneIsKept(r, row) ==
  \A list \in ListNames :
    \A shown \in {ListOf(row, list)}, all \in {ChildRows(r, list)} :
      /\ shown # <<>> =>
           \A j \in Removed(all, shown) :
             /\ all[j].name # "[None]"
             /\ \A k \in 1..Len(all) :
                  (k \notin Removed(all, shown) /\ all[k].name # "[None]")
                    => RankLess(all[k], all[j], options_.sort_by)
      /\ \A k \in 1..Len(shown) :
           shown[k].name # others_label =>
             \A cr \in {ChildRollup(r, shown[k].name)} : NoneIsKept(cr, shown[k])

\* C28: whenever an output is made, no list has lost a row named "[None]" to
\* the row limit, whatever its size, and the rows a list has lost are the
\* last ones in the order of rank: those of the smallest magnitude under
\* sort_by, ties broken by name.
C28_NoneNeverCollapsed ==
  opc = "done" => NoneIsKept(orollup, output)

\* An output shows a "[None]" row although its list lost a row of a greater
\* magnitude.
C28_Witness ==
  /\ opc = "done"
  /\ \E all \in {ChildRows(orollup, "sorted_children")} :
       \E n \in 1..Len(all), j \in Removed(all, output.sorted_children) :
         /\ all[n].name = "[None]"
         /\ n \notin Removed(all, output.sorted_children)
         /\ ValToRank(all[j], options_.sort_by) > ValToRank(all[n], options_.sort_by)

----------------------------------------------------------------------------
(* Pruning of trivial children *)

\* The rows |all| of one list of |row| are a single row that ComputeRows
\* clears: "[None]" or "[Unmapped]" below the top level, or a row with the
\* name of |row|.
Trivial(row, all, is_toplevel) ==
  /\ Len(all) = 1
  /\ \/ ~is_toplevel /\ all[1].name \in {"[None]", "[Unmapped]"}
     \/ all[1].name = row.name

\* In every list under |row|, the row of the Rollup r: a trivial only row is
\* gone, and otherwise the list shows rows of the node, as many as the row
\* limit allows.
RECURSIVE OnlyTrivialPruned(_, _, _)
OnlyTrivialPruned(r, row, is_toplevel) ==
  \A list \in ListNames :
    \A shown \in {ListOf(row, list)}, all \in {ChildRows(r, list)} :
      /\ IF Trivial(row, all, is_toplevel)
           THEN shown = <<>>
           ELSE /\ RowNamesOf(shown) \ {others_label} \subseteq RowNamesOf(all)
                /\ Cardinality(RowNamesOf(shown) \ {others_label})
                     = Min2(Len(all), options_.max_rows_per_level)
      /\ (is_toplevel /\ Len(all) = 1 /\ all[1].name \in {"[None]", "[Unmapped]"})
           => RowNamesOf(shown) = {all[1].name}
      /\ \A k \in 1..Len(shown) :
           shown[k].name # others_label =>
             \A cr \in {ChildRollup(r, shown[k].name)} :
               OnlyTrivialPruned(cr, shown[k], FALSE)

PrunedAtRoot ==
  /\ ChildNames(orollup) = {"TOTAL"}
  /\ output.sorted_children = <<>>

\* A root that shows its solitary "[None]".
SolitaryKept ==
  /\ ChildNames(orollup) = {"[None]"}
  /\ RowNamesOf(output.sorted_children) = {"[None]"}

\* A row below the root whose node has the only child "[Unmapped]", and shows
\* no rows.
PrunedBelowRoot ==
  /\ ChildNames(orollup) = {"a"}
  /\ ChildNames(ChildRollup(orollup, "a")) = {"[Unmapped]"}
  /\ Len(output.sorted_children) = 1
  /\ output.sorted_children[1].sorted_children = <<>>

C29_WitnessAtRoot == opc = "done" /\ PrunedAtRoot

C29_WitnessSolitary == opc = "done" /\ SolitaryKept

----------------------------------------------------------------------------
(* Rows lost to the row limit *)

\* In every list of |lists| under |row|, the row of the Rollup r, that shows
\* rows and lost some, "[Other]" is among the rows shown.
RECURSIVE OtherStandsFor(_, _, _)
OtherStandsFor(r, row, lists) ==
  /\ \A list \in lists :
       \A shown \in {ListOf(row, list)}, all \in {ChildRows(r, list)} :
         (shown # <<>> /\ Removed(all, shown) # {}) => others_label \in RowNamesOf(shown)
  /\ \A list \in ListNames :
       \A shown \in {ListOf(row, list)} :
         \A k \in 1..Len(shown) :
           shown[k].name # others_label =>
             \A cr \in {ChildRollup(r, shown[k].name)} : OtherStandsFor(cr, shown[k], lists)

\* C30: whenever an output is made, every list (children, shrinking, mixed)
\* that lost a row to the row limit shows an "[Other]" row.
C30_OtherStandsForRemoved ==
  opc = "done" => OtherStandsFor(orollup, output, ListNames)

\* Whenever an output is made, every list of growing rows and every list of
\* shrinking rows that lost a row to the row limit shows an "[Other]" row.
C30_OtherOutsideMixed ==
  opc = "done" => OtherStandsFor(orollup, output, ListNames \ {"mixed"})

\* An output whose list of mixed rows lost rows and shows no "[Other]" row.
C30_SilentLoss ==
  /\ opc = "done"
  /\ \E all \in {ChildRows(orollup, "mixed")} :
       /\ output.mixed # <<>>
       /\ Removed(all, output.mixed) # {}
       /\ others_label \notin RowNamesOf(output.mixed)

====
